---- MODULE Spec2Model ----
(***************************************************************************)
(* Booking admission and capacity-consistency engine of quartermaster-api. *)
(* The persisted tables are the variables; every route handler is an       *)
(* operator from the current tables and a request to an outcome and the    *)
(* tables it leaves committed, and one action applies it.                  *)
(***************************************************************************)
EXTENDS Integers, Sequences, FiniteSets, TLC

VARIABLES
    mission,                \* Mission rows: id -> [active, sales_tax_rate]
    trip,                   \* Trip rows: id -> [mission_id, active, booking_mode, sales_open_at]
    boat,                   \* Boat rows: id -> [capacity]
    trip_boat,              \* TripBoat rows: <<trip_id, boat_id>> -> [max_capacity, use_only_trip_pricing]
    boat_pricing,           \* BoatPricing rows: <<boat_id, ticket_type>> -> [price, capacity]
    trip_boat_pricing,      \* TripBoatPricing rows: <<trip_id, boat_id, ticket_type>> -> [price, capacity]
    merchandise,            \* Merchandise rows: id -> [price]
    trip_merchandise,       \* TripMerchandise rows: id -> [trip_id, merchandise_id, overrides]
    discount_code,          \* DiscountCode rows: id -> [is_access_code, is_active, access_code_mission_id]
    merchandise_variation,  \* MerchandiseVariation rows: id -> [merchandise_id, variant_value, quantity_*]
    booking,                \* Booking rows, keyed by confirmation_code
    booking_item,           \* BookingItem rows, keyed by item id
    last,                   \* the last request logged: [op, outcome, err, by, code, was]
    trail,                  \* the admit/refund round trip under way, if any
    proc,                   \* concurrent create_booking calls: process -> [pc, req, seen]
    scn                     \* the scenario (family of requests) of this behaviour

refvars == <<mission, trip, boat, trip_boat, boat_pricing, trip_boat_pricing,
             merchandise, trip_merchandise, discount_code>>
dbvars == <<merchandise_variation, booking, booking_item>>
vars == <<refvars, dbvars, last, trail, proc, scn>>

-----------------------------------------------------------------------------
(* Bounds of the model *)

\* confirmation codes a client may submit (bookings alive at once)
MaxBookings == 2
\* items in one create request
MaxItems == 2
\* largest quantity a request names
MaxQty == 2
\* largest value a stock counter is followed to
MaxCount == 3
\* largest refund amount a request names
MaxRefund == 6
\* largest ticket price of the admission scenario
MaxPrice == 2
\* largest capacity an administrative request names
MaxCapacity == 2

-----------------------------------------------------------------------------
(* Null values *)

\* None in a string or id column
None == "None"
\* None in an integer column
NoneInt == 0 - 1

-----------------------------------------------------------------------------
(* Generic helpers *)

RECURSIVE SumSet(_, _)
\* sum of f[x] over the finite set S
SumSet(S, f) ==
    IF S = {} THEN 0
    ELSE LET x == CHOOSE y \in S : TRUE IN f[x] + SumSet(S \ {x}, f)

Max2(a, b) == IF a >= b THEN a ELSE b
Min2(a, b) == IF a <= b THEN a ELSE b

\* the rows of a table without the rows keyed in K
DropKeys(table, K) == [k \in DOMAIN table \ K |-> table[k]]

\* a table with row k set (inserted or replaced)
PutRow(table, k, row) ==
    [x \in DOMAIN table \cup {k} |-> IF x = k THEN row ELSE table[x]]

\* Python round(): n/d rounded to the nearest integer, ties to even (d > 0)
RoundHalfEven(n, d) ==
    LET q == n \div d
        r == n % d
    IN IF 2 * r < d THEN q
       ELSE IF 2 * r > d THEN q + 1
       ELSE IF q % 2 = 0 THEN q ELSE q + 1

-----------------------------------------------------------------------------
(* Enumerations *)

BookingStatus == {"draft", "confirmed", "checked_in", "completed", "cancelled"}
PaymentStatus == {"pending_payment", "paid", "free", "failed", "refunded",
                  "partially_refunded"}
BookingItemStatus == {"active", "refunded", "fulfilled"}

\* the item_type / ticket_type strings of the model
ItemTypeStrings == {"adult", "child", "adult_ticket", "Adult", "shirt"}

\* str.lower()
Lower(s) == IF s = "Adult" THEN "adult" ELSE s

\* str.replace("_ticket", "")
StripTicket(s) == IF s = "adult_ticket" THEN "adult" ELSE s

-----------------------------------------------------------------------------
(* Table lookups (session.get and simple selects) *)

HasTrip(t) == t \in DOMAIN trip
HasBoat(b) == b \in DOMAIN boat
HasTripBoat(t, b) == <<t, b>> \in DOMAIN trip_boat

\* the ids of the items of booking c, in display (creation) order
ItemIdsOf(items, c) == {i \in DOMAIN items : items[i].booking_id = c}

RECURSIVE SortedSeq(_)
\* the elements of a finite set of integers as an increasing sequence
SortedSeq(S) ==
    IF S = {} THEN <<>>
    ELSE LET m == CHOOSE x \in S : \A y \in S : x <= y
         IN <<m>> \o SortedSeq(S \ {m})

get_booking_items_in_display_order(items, c) == SortedSeq(ItemIdsOf(items, c))

IsTicket(it) == it.trip_merchandise_id = None

-----------------------------------------------------------------------------
(* Inventory ledger, tickets *)

\* a booking that counts against capacity
IsPaidBooking(bk) ==
    /\ bk.booking_status \in {"confirmed", "checked_in", "completed"}
    /\ bk.payment_status # "refunded"

\* the ticket items of paid bookings on a trip and boat
PaidTicketItems(bks, items, t, b) ==
    {i \in DOMAIN items :
        /\ IsTicket(items[i])
        /\ items[i].trip_id = t
        /\ items[i].boat_id = b
        /\ items[i].booking_id \in DOMAIN bks
        /\ IsPaidBooking(bks[items[i].booking_id])}

\* paid seats keyed by (boat, item_type): the entry of the key, 0 when absent
get_paid_ticket_count_per_boat_per_item_type_for_trip(bks, items, t, b, ty) ==
    LET S == {i \in PaidTicketItems(bks, items, t, b) : items[i].item_type = ty}
    IN SumSet(S, [i \in S |-> items[i].quantity])

\* paid seats keyed by boat only
get_paid_ticket_count_per_boat_for_trip(bks, items, t, b) ==
    LET S == PaidTicketItems(bks, items, t, b)
    IN SumSet(S, [i \in S |-> items[i].quantity])

-----------------------------------------------------------------------------
(* Capacity resolver *)

\* boat-level defaults apply unless the trip-boat suppresses them
UsesBoatDefaults(t, b) ==
    ~(HasTripBoat(t, b) /\ trip_boat[<<t, b>>].use_only_trip_pricing)

\* the ticket types sellable on (trip, boat): the merged pricing set
EffectiveTypes(t, b) ==
    {ty \in ItemTypeStrings :
        \/ <<t, b, ty>> \in DOMAIN trip_boat_pricing
        \/ (UsesBoatDefaults(t, b) /\ <<b, ty>> \in DOMAIN boat_pricing)}

\* effective price of a sellable type: trip override, else boat default
EffectivePrice(t, b, ty) ==
    IF <<t, b, ty>> \in DOMAIN trip_boat_pricing
    THEN trip_boat_pricing[<<t, b, ty>>].price
    ELSE boat_pricing[<<b, ty>>].price

\* effective per-type capacity of a sellable type; NoneInt when unrestricted
EffectiveCapacity(t, b, ty) ==
    LET tbp == <<t, b, ty>> \in DOMAIN trip_boat_pricing
        raw == IF tbp /\ trip_boat_pricing[<<t, b, ty>>].capacity # NoneInt
               THEN trip_boat_pricing[<<t, b, ty>>].capacity
               ELSE IF <<b, ty>> \in DOMAIN boat_pricing
                    THEN boat_pricing[<<b, ty>>].capacity
                    ELSE NoneInt
    IN IF raw = 0 THEN NoneInt ELSE raw

\* crud.get_effective_pricing as the dict {ticket_type: price} the routes build
get_effective_pricing(t, b) ==
    [ty \in EffectiveTypes(t, b) |-> EffectivePrice(t, b, ty)]

\* crud.get_effective_capacity_per_ticket_type: {ticket_type: capacity or None}
get_effective_capacity_per_ticket_type(t, b) ==
    [ty \in EffectiveTypes(t, b) |-> EffectiveCapacity(t, b, ty)]

\* TripBoat.max_capacity if set, else Boat.capacity (0 when the boat is gone)
effective_max(t, b) ==
    IF trip_boat[<<t, b>>].max_capacity # NoneInt
    THEN trip_boat[<<t, b>>].max_capacity
    ELSE IF HasBoat(b) THEN boat[b].capacity ELSE 0

-----------------------------------------------------------------------------
(* Totals calculator *)

\* compute_booking_totals(subtotal, discount, tax_rate, tip) -> [tax, total];
\* the rate is a percentage
compute_booking_totals(subtotal, discount, rate, tip) ==
    LET tax == RoundHalfEven((subtotal - discount) * rate, 100)
    IN [tax |-> tax, total |-> subtotal - discount + tax + tip]

\* trip -> mission -> launch -> location -> first jurisdiction's rate, or NoneInt
tax_rate_of_trip(t) ==
    IF ~HasTrip(t) THEN NoneInt
    ELSE IF trip[t].mission_id \notin DOMAIN mission THEN NoneInt
    ELSE mission[trip[t].mission_id].sales_tax_rate

\* sum of quantity * price_per_unit over a set of item ids
Subtotal(items, S) ==
    SumSet(S, [i \in S |-> items[i].quantity * items[i].price_per_unit])

-----------------------------------------------------------------------------
(* Access control *)

\* effective_booking_mode: one level more restrictive before sales_open_at
effective_booking_mode(mode, sales_open_at) ==
    IF sales_open_at = "future"
    THEN (IF mode = "public" THEN "early_bird" ELSE "private")
    ELSE mode

-----------------------------------------------------------------------------
(* Handler results *)

\* what a handler leaves behind: the response class and the committed tables
Result(outcome, err, bks, items, vars_) ==
    [outcome |-> outcome, err |-> err, booking |-> bks, booking_item |-> items,
     merchandise_variation |-> vars_]

\* an HTTPException raised before anything is committed: nothing changes
Rejected(err) == Result("rejected", err, booking, booking_item, merchandise_variation)

RECURSIVE FirstError(_)
\* the first entry of a sequence of per-item verdicts that is not "ok"
FirstError(errs) ==
    IF errs = <<>> THEN "ok"
    ELSE IF Head(errs) # "ok" THEN Head(errs)
    ELSE FirstError(Tail(errs))

\* dict.get(k): the value, or NoneInt
DictGet(d, k) == IF k \in DOMAIN d THEN d[k] ELSE NoneInt

\* Python `a or b` on optional integers: None and 0 are falsy
PyOr(a, b) == IF a = NoneInt \/ a = 0 THEN b ELSE a

\* crud.get_merchandise_variation_by_merchandise_and_value, or None
get_merchandise_variation_by_merchandise_and_value(mvs, mid, value) ==
    LET S == {v \in DOMAIN mvs :
                 mvs[v].merchandise_id = mid /\ mvs[v].variant_value = value}
    IN IF S = {} THEN None ELSE CHOOSE v \in S : TRUE

\* (item.variant_option or "").strip()
VariantValue(item) == IF item.variant_option = None THEN "" ELSE item.variant_option

-----------------------------------------------------------------------------
(* _create_booking_impl: the validation pipeline *)

\* lines 102-126: every trip exists and is active, all in one mission
TripCheck(req, i) ==
    LET item == req.items[i]
    IN IF ~HasTrip(item.trip_id) THEN "trip_not_found"
       ELSE IF ~trip[item.trip_id].active THEN "trip_inactive"
       ELSE IF trip[item.trip_id].mission_id # trip[req.items[1].trip_id].mission_id
            THEN "cross_mission"
       ELSE "ok"

\* lines 128-139: the derived mission exists and is active
MissionCheck(mission_id) ==
    IF mission_id \notin DOMAIN mission THEN "mission_not_found"
    ELSE IF ~mission[mission_id].active THEN "mission_inactive"
    ELSE "ok"

\* the access control that takes any existing discount code for an access code
AccessCheck_any_code(req, current_user, mission_id) ==
    LET tids == {req.items[i].trip_id : i \in DOMAIN req.items}
        eff(t) == effective_booking_mode(trip[t].booking_mode, trip[t].sales_open_at)
        any_private == \E t \in tids : eff(t) = "private"
        any_early_bird == \E t \in tids : eff(t) = "early_bird"
        dc == req.discount_code_id
    IN IF current_user = "superuser" THEN "ok"
       ELSE IF any_private THEN "private_trip"
       ELSE IF any_early_bird THEN
            (IF dc = None THEN "access_code_required"
             ELSE IF dc \notin DOMAIN discount_code THEN "invalid_access_code"
             ELSE "ok")
       ELSE "ok"

\* lines 141-211: booking_mode access control
AccessCheck(req, current_user, mission_id) ==
    LET tids == {req.items[i].trip_id : i \in DOMAIN req.items}
        eff(t) == effective_booking_mode(trip[t].booking_mode, trip[t].sales_open_at)
        any_private == \E t \in tids : eff(t) = "private"
        any_early_bird == \E t \in tids : eff(t) = "early_bird"
        dc == req.discount_code_id
    IN IF current_user = "superuser" THEN "ok"
       ELSE IF any_private THEN "private_trip"
       ELSE IF any_early_bird THEN
            (IF dc = None THEN "access_code_required"
             ELSE IF dc \notin DOMAIN discount_code THEN "invalid_access_code"
             ELSE IF ~discount_code[dc].is_access_code THEN "not_an_access_code"
             ELSE IF ~discount_code[dc].is_active THEN "access_code_inactive"
             ELSE IF /\ discount_code[dc].access_code_mission_id # None
                     /\ discount_code[dc].access_code_mission_id # mission_id
                  THEN "access_code_wrong_mission"
             ELSE "ok")
       ELSE "ok"

\* lines 213-232: the boat exists and is associated with the trip
BoatCheck(req, i) ==
    LET item == req.items[i]
    IN IF ~HasBoat(item.boat_id) THEN "boat_not_found"
       ELSE IF ~HasTripBoat(item.trip_id, item.boat_id) THEN "boat_not_on_trip"
       ELSE "ok"

\* lines 245-249: the price the pricing step resolves for a ticket item
ResolvedTicketPrice(item) ==
    LET by_type == get_effective_pricing(item.trip_id, item.boat_id)
    IN PyOr(DictGet(by_type, item.item_type),
            DictGet(by_type, StripTicket(item.item_type)))

\* lines 306-308: stock a merchandise item may still take
AvailableStock(mvs, v, tm) ==
    LET available == mvs[v].quantity_total - mvs[v].quantity_sold
    IN IF trip_merchandise[tm].quantity_available_override # NoneInt
       THEN Min2(available, trip_merchandise[tm].quantity_available_override)
       ELSE available

\* lines 260-321: one merchandise item against the catalogue and the stock
MerchandiseCheck(mvs, item) ==
    LET tmid == item.trip_merchandise_id
    IN IF tmid \notin DOMAIN trip_merchandise THEN "invalid_merchandise_reference"
       ELSE IF trip_merchandise[tmid].trip_id # item.trip_id
            THEN "invalid_merchandise_reference"
       ELSE
       LET tm == trip_merchandise[tmid]
           allowed == {mvs[v].variant_value :
                          v \in {w \in DOMAIN mvs :
                                    /\ mvs[w].merchandise_id = tm.merchandise_id
                                    /\ mvs[w].variant_value # ""}}
           variation == get_merchandise_variation_by_merchandise_and_value(
                            mvs, tm.merchandise_id, VariantValue(item))
       IN IF tm.merchandise_id \notin DOMAIN merchandise THEN "merchandise_not_found"
          ELSE IF allowed # {} /\ item.variant_option \notin allowed
               THEN "invalid_variant"
          ELSE IF variation = None THEN "no_variation"
          ELSE IF AvailableStock(mvs, variation, tmid) < item.quantity
               THEN "insufficient_merchandise_inventory"
          ELSE IF (IF tm.price_override # NoneInt THEN tm.price_override
                   ELSE merchandise[tm.merchandise_id].price) # item.price_per_unit
               THEN "merchandise_price_mismatch"
          ELSE "ok"

\* lines 234-321: pricing and inventory of one item
PricingCheck(mvs, req, i) ==
    LET item == req.items[i]
    IN IF IsTicket(item)
       THEN (IF ResolvedTicketPrice(item) = NoneInt THEN "no_pricing"
             ELSE IF ResolvedTicketPrice(item) # item.price_per_unit
                  THEN "ticket_price_mismatch"
             ELSE "ok")
       ELSE MerchandiseCheck(mvs, item)

\* lines 359-363: paid seats of the bucket, keys compared ignoring case
PaidIgnoringCase(bks, items, t, b, ty) ==
    LET K == {k \in ItemTypeStrings : Lower(k) = Lower(ty)}
    IN SumSet(K, [k \in K |->
           get_paid_ticket_count_per_boat_per_item_type_for_trip(bks, items, t, b, k)])

\* the per-type check that lets one seat more than the capacity through
TypeCapacityCheck_one_over(bks, items, req, i) ==
    LET item == req.items[i]
        same == {j \in DOMAIN req.items :
                    /\ IsTicket(req.items[j])
                    /\ req.items[j].trip_id = item.trip_id
                    /\ req.items[j].boat_id = item.boat_id
                    /\ req.items[j].item_type = item.item_type}
        new_quantity == SumSet(same, [j \in same |-> req.items[j].quantity])
        capacities == get_effective_capacity_per_ticket_type(item.trip_id, item.boat_id)
        capacity == DictGet(capacities, item.item_type)
        paid == PaidIgnoringCase(bks, items, item.trip_id, item.boat_id, item.item_type)
    IN IF ~IsTicket(item) THEN "ok"
       ELSE IF item.item_type \notin DOMAIN capacities THEN "no_capacity_configured"
       ELSE IF capacity # NoneInt /\ paid + new_quantity > capacity + 1
            THEN "type_capacity_exceeded"
       ELSE "ok"

\* lines 323-374: per-ticket-type capacity of the bucket of item i
TypeCapacityCheck(bks, items, req, i) ==
    LET item == req.items[i]
        same == {j \in DOMAIN req.items :
                    /\ IsTicket(req.items[j])
                    /\ req.items[j].trip_id = item.trip_id
                    /\ req.items[j].boat_id = item.boat_id
                    /\ req.items[j].item_type = item.item_type}
        new_quantity == SumSet(same, [j \in same |-> req.items[j].quantity])
        capacities == get_effective_capacity_per_ticket_type(item.trip_id, item.boat_id)
        capacity == DictGet(capacities, item.item_type)
        paid == PaidIgnoringCase(bks, items, item.trip_id, item.boat_id, item.item_type)
    IN IF ~IsTicket(item) THEN "ok"
       ELSE IF item.item_type \notin DOMAIN capacities THEN "no_capacity_configured"
       ELSE IF capacity # NoneInt /\ paid + new_quantity > capacity
            THEN "type_capacity_exceeded"
       ELSE "ok"

\* lines 376-417: total boat capacity of the (trip, boat) of item i
TotalCapacityCheck(bks, items, req, i) ==
    LET item == req.items[i]
        same == {j \in DOMAIN req.items :
                    /\ IsTicket(req.items[j])
                    /\ req.items[j].trip_id = item.trip_id
                    /\ req.items[j].boat_id = item.boat_id}
        new_total == SumSet(same, [j \in same |-> req.items[j].quantity])
        paid_total == get_paid_ticket_count_per_boat_for_trip(
                          bks, items, item.trip_id, item.boat_id)
    IN IF ~IsTicket(item) THEN "ok"
       ELSE IF ~HasTripBoat(item.trip_id, item.boat_id) THEN "ok"
       ELSE IF paid_total + new_total > effective_max(item.trip_id, item.boat_id)
            THEN "total_capacity_exceeded"
       ELSE "ok"

\* lines 96-434: the first failing validation step, or "ok"
create_booking_validate(bks, items, mvs, req, current_user) ==
    LET n == Len(req.items)
        e2 == FirstError([i \in 1..n |-> TripCheck(req, i)])
        mission_id == trip[req.items[1].trip_id].mission_id
        e3 == MissionCheck(mission_id)
        e4 == AccessCheck(req, current_user, mission_id)
        e5 == FirstError([i \in 1..n |-> BoatCheck(req, i)])
        e6 == FirstError([i \in 1..n |-> PricingCheck(mvs, req, i)])
        e7 == FirstError([i \in 1..n |-> TypeCapacityCheck(bks, items, req, i)])
        e8 == FirstError([i \in 1..n |-> TotalCapacityCheck(bks, items, req, i)])
    IN IF n = 0 THEN "empty_items"
       ELSE IF e2 # "ok" THEN e2
       ELSE IF e3 # "ok" THEN e3
       ELSE IF e4 # "ok" THEN e4
       ELSE IF e5 # "ok" THEN e5
       ELSE IF e6 # "ok" THEN e6
       ELSE IF e7 # "ok" THEN e7
       ELSE IF e8 # "ok" THEN e8
       ELSE IF req.confirmation_code \in DOMAIN bks THEN "duplicate_confirmation_code"
       ELSE "ok"

-----------------------------------------------------------------------------
(* _create_booking_impl: persistence *)

\* the id the store gives item i of the booking with confirmation code c
ItemId(c, i) == (c - 1) * MaxItems + i

\* lines 438-457: the Booking row, a draft without payment status
NewBooking(req) ==
    [booking_status |-> "draft",
     payment_status |-> None,
     first_name |-> req.first_name,
     subtotal |-> req.subtotal,
     discount_amount |-> req.discount_amount,
     tax_amount |-> req.tax_amount,
     tip_amount |-> req.tip_amount,
     total_amount |-> req.total_amount,
     refunded_amount_cents |-> 0,
     payment_intent_id |-> None,
     refund_reason |-> None,
     discount_code_id |-> req.discount_code_id]

\* lines 461-487: the BookingItem row of item i, its variation resolved
NewBookingItem(mvs, req, i) ==
    LET item == req.items[i]
        tmid == item.trip_merchandise_id
    IN [booking_id |-> req.confirmation_code,
        trip_id |-> item.trip_id,
        boat_id |-> item.boat_id,
        trip_merchandise_id |-> tmid,
        merchandise_variation_id |->
            IF tmid # None /\ tmid \in DOMAIN trip_merchandise
            THEN get_merchandise_variation_by_merchandise_and_value(
                     mvs, trip_merchandise[tmid].merchandise_id, VariantValue(item))
            ELSE None,
        item_type |-> item.item_type,
        quantity |-> item.quantity,
        price_per_unit |-> item.price_per_unit,
        status |-> item.status,
        variant_option |-> item.variant_option]

\* lines 489-495: the tables after the first commit (booking and items)
WithNewBooking(bks, req) == PutRow(bks, req.confirmation_code, NewBooking(req))

WithNewItems(items, mvs, req) ==
    LET ids == {ItemId(req.confirmation_code, i) : i \in DOMAIN req.items}
    IN [k \in DOMAIN items \cup ids |->
           IF k \in ids
           THEN NewBookingItem(mvs, req, k - (req.confirmation_code - 1) * MaxItems)
           ELSE items[k]]

\* quantity of the item set S held on variation v
HeldOn(items, S, v) ==
    LET H == {i \in S : items[i].merchandise_variation_id = v}
    IN SumSet(H, [i \in H |-> items[i].quantity])

\* the increment that counts one item of S for each variation
SoldIncremented_once(mvs, items, S) ==
    [v \in DOMAIN mvs |->
        LET H == {i \in S : items[i].merchandise_variation_id = v}
        IN [mvs[v] EXCEPT !.quantity_sold =
               IF H = {} THEN @ ELSE @ + items[CHOOSE i \in H : TRUE].quantity]]

\* lines 498-508: quantity_sold += item.quantity for every merchandise item in S
SoldIncremented(mvs, items, S) ==
    [v \in DOMAIN mvs |->
        [mvs[v] EXCEPT !.quantity_sold = @ + HeldOn(items, S, v)]]

\* where a create request may break after its validation: nowhere, in the
\* quantity_sold transaction (lines 499-511), or in generate_qr_code (line 514)
CreateFaults == {"none", "inventory", "qr"}

\* the handler that looks for the confirmation code only after it has written
\* the booking and its items
create_booking_late_code_check(req, current_user, fault) ==
    LET e == create_booking_validate(booking, booking_item, merchandise_variation,
                                     req, current_user)
        bks1 == WithNewBooking(booking, req)
        items1 == WithNewItems(booking_item, merchandise_variation, req)
        mvs1 == SoldIncremented(merchandise_variation, items1,
                                ItemIdsOf(items1, req.confirmation_code))
    IN IF e = "duplicate_confirmation_code"
       THEN Result("rejected", e, bks1, items1, merchandise_variation)
       ELSE IF e # "ok" THEN Rejected(e)
       ELSE IF fault = "inventory"
            THEN Result("error", "inventory_update_failed", bks1, items1,
                        merchandise_variation)
       ELSE IF fault = "qr"
            THEN Result("error", "qr_code_failed", bks1, items1, mvs1)
       ELSE Result("ok", "ok", bks1, items1, mvs1)

\* lines 89-521
create_booking(req, current_user, fault) ==
    LET e == create_booking_validate(booking, booking_item, merchandise_variation,
                                     req, current_user)
        bks1 == WithNewBooking(booking, req)
        items1 == WithNewItems(booking_item, merchandise_variation, req)
        mvs1 == SoldIncremented(merchandise_variation, items1,
                                ItemIdsOf(items1, req.confirmation_code))
    IN IF e # "ok" THEN Rejected(e)
       ELSE IF fault = "inventory"
            THEN Result("error", "inventory_update_failed", bks1, items1,
                        merchandise_variation)
       ELSE IF fault = "qr"
            THEN Result("error", "qr_code_failed", bks1, items1, mvs1)
       ELSE Result("ok", "ok", bks1, items1, mvs1)

-----------------------------------------------------------------------------
(* Inventory ledger, merchandise: reversal paths *)

\* quantity_sold -= item.quantity, floored at 0, for the merchandise items in S
SoldReleased(mvs, items, S) ==
    [v \in DOMAIN mvs |->
        [mvs[v] EXCEPT !.quantity_sold = Max2(0, @ - HeldOn(items, S, v))]]

\* quantity_fulfilled -= item.quantity, floored at 0, for the items in S
FulfilledReleased(mvs, items, S) ==
    [v \in DOMAIN mvs |->
        [mvs[v] EXCEPT !.quantity_fulfilled = Max2(0, @ - HeldOn(items, S, v))]]

\* quantity_fulfilled += item.quantity for the merchandise items in S
FulfilledIncremented(mvs, items, S) ==
    [v \in DOMAIN mvs |->
        [mvs[v] EXCEPT !.quantity_fulfilled = @ + HeldOn(items, S, v)]]

\* the items of S whose status is st
WithStatus(items, S, st) == {i \in S : items[i].status = st}

\* every item of S set to status st
SetStatus(items, S, st) ==
    [i \in DOMAIN items |->
        IF i \in S THEN [items[i] EXCEPT !.status = st] ELSE items[i]]

-----------------------------------------------------------------------------
(* delete_booking, lines 982-1018 *)

delete_booking(c) ==
    LET S == ItemIdsOf(booking_item, c)
        mvs1 == SoldReleased(merchandise_variation, booking_item, S)
        mvs2 == FulfilledReleased(mvs1, booking_item,
                                  WithStatus(booking_item, S, "fulfilled"))
    IN IF c \notin DOMAIN booking THEN Rejected("booking_not_found")
       ELSE Result("ok", "ok", DropKeys(booking, {c}), DropKeys(booking_item, S), mvs2)

-----------------------------------------------------------------------------
(* check_in_booking, lines 1752-1861; trip_id and boat_id are the optional context *)

check_in_booking(c, trip_id, boat_id) ==
    LET S == ItemIdsOf(booking_item, c)
    IN IF c \notin DOMAIN booking THEN Rejected("booking_not_found")
       ELSE IF booking[c].booking_status \notin {"confirmed", "checked_in"}
            THEN Rejected("invalid_status_for_check_in")
       ELSE IF /\ trip_id # None /\ boat_id # None
               /\ ~\E i \in S : /\ booking_item[i].trip_id = trip_id
                                /\ booking_item[i].boat_id = boat_id
            THEN Rejected("no_item_for_trip_and_boat")
       ELSE Result("ok", "ok",
                   [booking EXCEPT ![c].booking_status = "checked_in"],
                   SetStatus(booking_item, S, "fulfilled"),
                   FulfilledIncremented(merchandise_variation, booking_item, S))

-----------------------------------------------------------------------------
(* revert_check_in, lines 1870-1940 *)

\* lines 1894-1918: what a revert of the checked-in booking c leaves of the tables
Reverted(bks, items, mvs, c) ==
    LET S == ItemIdsOf(items, c)
    IN Result("ok", "ok",
              [bks EXCEPT ![c].booking_status = "confirmed"],
              SetStatus(items, S, "active"),
              FulfilledReleased(mvs, items, S))

revert_check_in(c) ==
    IF c \notin DOMAIN booking THEN Rejected("booking_not_found")
    ELSE IF booking[c].booking_status # "checked_in"
         THEN Rejected("not_checked_in")
    ELSE Reverted(booking, booking_item, merchandise_variation, c)

-----------------------------------------------------------------------------
(* process_refund, lines 2040-2246; amount is NoneInt for "the whole remainder"; *)
(* gateway_ok says whether the payment gateway accepts the refund                *)

\* the amount check that lets every amount up to the total through
RefundAmountCheck_total(bk, amount_to_refund) ==
    IF bk.total_amount - bk.refunded_amount_cents <= 0 THEN "nothing_to_refund"
    ELSE IF amount_to_refund > bk.total_amount THEN "refund_too_large"
    ELSE IF amount_to_refund <= 0 THEN "refund_not_positive"
    ELSE "ok"

\* lines 2088-2111: the amount against what is left to refund
RefundAmountCheck(bk, amount_to_refund) ==
    IF bk.total_amount - bk.refunded_amount_cents <= 0 THEN "nothing_to_refund"
    ELSE IF amount_to_refund > bk.total_amount - bk.refunded_amount_cents
         THEN "refund_too_large"
    ELSE IF amount_to_refund <= 0 THEN "refund_not_positive"
    ELSE "ok"

\* the test that takes every refund for a full one
IsFullRefund_always(bk, refunded) == refunded > 0

\* line 2158: the cumulative refund has reached the total
IsFullRefund(bk, refunded) == refunded >= bk.total_amount

\* the gateway step that lets a failed refund through
GatewayCheck_ignored(bk, gateway_ok) == "ok"

\* lines 2118-2136: the payment gateway, called when a payment intent exists
GatewayCheck(bk, gateway_ok) ==
    IF bk.payment_intent_id # None /\ ~gateway_ok THEN "gateway_refund_failed"
    ELSE "ok"

process_refund(c, refund_amount_cents, gateway_ok) ==
    IF c \notin DOMAIN booking THEN Rejected("booking_not_found")
    ELSE
    LET bk == booking[c]
        S == ItemIdsOf(booking_item, c)
        refunded_so_far == bk.refunded_amount_cents
        remaining_refundable == bk.total_amount - refunded_so_far
        amount_to_refund == IF refund_amount_cents # NoneInt THEN refund_amount_cents
                            ELSE remaining_refundable
        refunded == refunded_so_far + amount_to_refund
        mvs1 == SoldReleased(merchandise_variation, booking_item, S)
        mvs2 == FulfilledReleased(mvs1, booking_item,
                                  WithStatus(booking_item, S, "fulfilled"))
    IN IF bk.booking_status \notin {"confirmed", "checked_in", "completed"}
       THEN Rejected("invalid_status_for_refund")
       ELSE IF RefundAmountCheck(bk, amount_to_refund) # "ok"
            THEN Rejected(RefundAmountCheck(bk, amount_to_refund))
       ELSE IF GatewayCheck(bk, gateway_ok) # "ok"
            THEN Rejected(GatewayCheck(bk, gateway_ok))
       ELSE IF IsFullRefund(bk, refunded)
            THEN Result("ok", "ok",
                        [booking EXCEPT ![c].refunded_amount_cents = refunded,
                                        ![c].refund_reason = "given",
                                        ![c].booking_status = "cancelled",
                                        ![c].payment_status = "refunded"],
                        SetStatus(booking_item, S, "refunded"),
                        mvs2)
       ELSE Result("ok", "ok",
                   [booking EXCEPT ![c].refunded_amount_cents = refunded,
                                   ![c].refund_reason = "given",
                                   ![c].payment_status = "partially_refunded"],
                   booking_item, merchandise_variation)

-----------------------------------------------------------------------------
(* update_booking (PATCH), lines 1026-1434.  A request is a record holding   *)
(* exactly the fields the client set.                                        *)

\* lines 1062-1067
forbidden_fields == {"items", "confirmation_code", "mission_id", "payment_intent_id"}

\* lines 1298-1313, the fields of the Booking row the model carries
allowed_fields == {"booking_status", "payment_status", "tip_amount",
                   "discount_amount", "tax_amount", "total_amount", "first_name"}

\* the table with the extra edge draft -> checked_in
valid_transitions_skipping(old) ==
    CASE old = "draft" -> {"confirmed", "cancelled", "checked_in"}
      [] old = "confirmed" -> {"checked_in", "cancelled"}
      [] old = "checked_in" -> {"completed", "cancelled"}
      [] old = "completed" -> {"cancelled"}
      [] OTHER -> {}

\* the table with the extra edge cancelled -> confirmed
valid_transitions_reopening(old) ==
    CASE old = "draft" -> {"confirmed", "cancelled"}
      [] old = "confirmed" -> {"checked_in", "cancelled"}
      [] old = "checked_in" -> {"completed", "cancelled"}
      [] old = "completed" -> {"cancelled"}
      [] OTHER -> {"confirmed"}

\* lines 1218-1233
valid_transitions(old) ==
    CASE old = "draft" -> {"confirmed", "cancelled"}
      [] old = "confirmed" -> {"checked_in", "cancelled"}
      [] old = "checked_in" -> {"completed", "cancelled"}
      [] old = "completed" -> {"cancelled"}
      [] OTHER -> {}

\* the item_quantity_updates of a request, <<>> when absent
QuantityUpdates(req) ==
    IF "item_quantity_updates" \in DOMAIN req THEN req.item_quantity_updates ELSE <<>>

RECURSIVE QtyById(_, _, _)
\* qty_by_id.get(id, dflt): the quantity of the last update naming the item
QtyById(iqu, id, dflt) ==
    IF iqu = <<>> THEN dflt
    ELSE IF iqu[Len(iqu)].id = id THEN iqu[Len(iqu)].quantity
    ELSE QtyById(SubSeq(iqu, 1, Len(iqu) - 1), id, dflt)

\* lines 1097-1137: per-type capacity of the bucket of item i with the proposed
\* quantities, this booking's own current seats subtracted from the paid count
QuantityCapacityCheck(c, iqu, i) ==
    LET S == {j \in ItemIdsOf(booking_item, c) : IsTicket(booking_item[j])}
        item == booking_item[i]
        bucket == {j \in S : /\ booking_item[j].trip_id = item.trip_id
                             /\ booking_item[j].boat_id = item.boat_id
                             /\ booking_item[j].item_type = item.item_type}
        qty == SumSet(bucket, [j \in bucket |->
                   QtyById(iqu, j, booking_item[j].quantity)])
        mine == {j \in S : /\ booking_item[j].boat_id = item.boat_id
                           /\ booking_item[j].item_type = item.item_type}
        current_this_booking == SumSet(mine, [j \in mine |-> booking_item[j].quantity])
        capacities == get_effective_capacity_per_ticket_type(item.trip_id, item.boat_id)
        cap == DictGet(capacities, item.item_type)
        paid == get_paid_ticket_count_per_boat_per_item_type_for_trip(
                    booking, booking_item, item.trip_id, item.boat_id, item.item_type)
        paid_excluding_this == paid - current_this_booking
    IN IF ~IsTicket(item) THEN "ok"
       ELSE IF item.item_type \notin DOMAIN capacities THEN "no_capacity_configured"
       ELSE IF cap # NoneInt /\ paid_excluding_this + qty > cap
            THEN "type_capacity_exceeded"
       ELSE "ok"

RECURSIVE ApplyQuantityUpdates(_, _, _)
\* lines 1139-1171: the updates applied in order to the session's rows;
\* [err, booking_item, merchandise_variation]
ApplyQuantityUpdates(iqu, items, mvs) ==
    IF iqu = <<>> THEN [err |-> "ok", booking_item |-> items, merchandise_variation |-> mvs]
    ELSE
    LET u == Head(iqu)
    IN IF u.id \notin DOMAIN items THEN ApplyQuantityUpdates(Tail(iqu), items, mvs)
       ELSE
       LET item == items[u.id]
           old_qty == item.quantity
           new_qty == u.quantity
           delta == new_qty - old_qty
           v == item.merchandise_variation_id
           tracked == v # None /\ v \in DOMAIN mvs
           short == tracked /\ delta > 0
                    /\ mvs[v].quantity_total - mvs[v].quantity_sold < delta
           mvs1 == IF ~tracked THEN mvs
                   ELSE IF delta > 0
                        THEN [mvs EXCEPT ![v].quantity_sold = @ + delta]
                        ELSE [mvs EXCEPT ![v].quantity_sold = Max2(0, @ - (0 - delta))]
           items1 == IF new_qty = 0 THEN DropKeys(items, {u.id})
                     ELSE [items EXCEPT ![u.id].quantity = new_qty]
       IN IF new_qty = old_qty THEN ApplyQuantityUpdates(Tail(iqu), items, mvs)
          ELSE IF short
               THEN [err |-> "insufficient_merchandise_inventory",
                     booking_item |-> items, merchandise_variation |-> mvs]
          ELSE ApplyQuantityUpdates(Tail(iqu), items1, mvs1)

\* the dict update_data after one more key is set
Put(d, k, val) == [x \in DOMAIN d \cup {k} |-> IF x = k THEN val ELSE d[x]]

\* the recomputation that leaves the tip out of the new total
TotalsAfterQuantityUpdate_without_tip(c, iqu, ud) ==
    LET ids == get_booking_items_in_display_order(booking_item, c)
        S == ItemIdsOf(booking_item, c)
        new_subtotal == SumSet(S, [i \in S |->
                            QtyById(iqu, i, booking_item[i].quantity)
                            * booking_item[i].price_per_unit])
        alive == SelectSeq(ids, LAMBDA i : QtyById(iqu, i, booking_item[i].quantity) > 0)
        rate == IF alive = <<>> THEN NoneInt
                ELSE tax_rate_of_trip(booking_item[Head(alive)].trip_id)
        t == compute_booking_totals(new_subtotal, booking[c].discount_amount, rate, 0)
    IN [subtotal |-> new_subtotal,
        update_data |->
            IF alive = <<>> \/ ~HasTrip(booking_item[Head(alive)].trip_id)
            THEN Put(Put(ud, "tax_amount", 0), "total_amount", 0)
            ELSE IF rate # NoneInt
                 THEN Put(Put(ud, "tax_amount", t.tax), "total_amount", t.total)
                 ELSE ud]

\* lines 1172-1207: subtotal of the proposed quantities and the tax and total
\* entries the quantity update writes into update_data
TotalsAfterQuantityUpdate(c, iqu, ud) ==
    LET ids == get_booking_items_in_display_order(booking_item, c)
        S == ItemIdsOf(booking_item, c)
        new_subtotal == SumSet(S, [i \in S |->
                            QtyById(iqu, i, booking_item[i].quantity)
                            * booking_item[i].price_per_unit])
        alive == SelectSeq(ids, LAMBDA i : QtyById(iqu, i, booking_item[i].quantity) > 0)
        rate == IF alive = <<>> THEN NoneInt
                ELSE tax_rate_of_trip(booking_item[Head(alive)].trip_id)
        t == compute_booking_totals(new_subtotal, booking[c].discount_amount, rate,
                                    booking[c].tip_amount)
    IN [subtotal |-> new_subtotal,
        update_data |->
            IF alive = <<>> \/ ~HasTrip(booking_item[Head(alive)].trip_id)
            THEN Put(Put(ud, "tax_amount", 0), "total_amount", 0)
            ELSE IF rate # NoneInt
                 THEN Put(Put(ud, "tax_amount", t.tax), "total_amount", t.total)
                 ELSE ud]

\* the rows a request had changed in its session, were they stored although
\* the request is rejected
Abandoned_kept(err, bks, items, mvs) == Result("rejected", err, bks, items, mvs)

\* a request rejected after its session has changed rows (lines 1157-1161,
\* 1234-1258, 1316-1324): the exception leaves the handler before line 1332,
\* the session is closed without a commit and the rows it changed are dropped
Abandoned(err, bks, items, mvs) == Rejected(err)

\* lines 1026-1434
update_booking(c, req) ==
    IF DOMAIN req = {} THEN Rejected("no_update_data")
    ELSE IF c \notin DOMAIN booking THEN Rejected("booking_not_found")
    ELSE IF booking[c].booking_status = "checked_in" THEN Rejected("checked_in_locked")
    ELSE IF DOMAIN req \cap forbidden_fields # {} THEN Rejected("forbidden_fields")
    ELSE
    LET bk == booking[c]
        S == ItemIdsOf(booking_item, c)
        iqu == QuantityUpdates(req)
        ud0 == [k \in DOMAIN req \ {"item_quantity_updates"} |-> req[k]]
        unknown == \E k \in DOMAIN iqu : iqu[k].id \notin S
        ecap == FirstError([k \in DOMAIN get_booking_items_in_display_order(booking_item, c)
                    |-> QuantityCapacityCheck(c, iqu,
                            get_booking_items_in_display_order(booking_item, c)[k])])
        applied == ApplyQuantityUpdates(iqu, booking_item, merchandise_variation)
        tot == TotalsAfterQuantityUpdate(c, iqu, ud0)
        \* the session's rows and update_data after the quantity-update block
        items1 == IF iqu = <<>> THEN booking_item ELSE applied.booking_item
        mvs1 == IF iqu = <<>> THEN merchandise_variation
                ELSE applied.merchandise_variation
        subtotal1 == IF iqu = <<>> THEN bk.subtotal ELSE tot.subtotal
        ud1 == IF iqu = <<>> THEN ud0 ELSE tot.update_data
        \* line 1177: the booking row of the session
        session_bks == [booking EXCEPT ![c].subtotal = subtotal1]
        \* lines 1209-1247
        old_booking_status == bk.booking_status
        status_set == "booking_status" \in DOMAIN ud1
        changed == status_set /\ ud1.booking_status # old_booking_status
        ud2 == IF /\ changed
                  /\ ud1.booking_status = "cancelled"
                  /\ "payment_status" \notin DOMAIN ud1
               THEN Put(ud1, "payment_status", "failed")
               ELSE ud1
        \* lines 1260-1295
        new_payment_status == IF "payment_status" \in DOMAIN ud2 /\ ud2.payment_status # None
                              THEN ud2.payment_status ELSE bk.payment_status
        S1 == ItemIdsOf(items1, c)
        items2 == IF status_set /\ ud2.booking_status = "cancelled"
                  THEN SetStatus(items1, S1,
                           IF new_payment_status \in {"refunded", "partially_refunded"}
                           THEN "refunded" ELSE "active")
                  ELSE items1
        \* lines 1326-1332
        row == [f \in DOMAIN bk |->
                   IF f \in DOMAIN ud2 THEN ud2[f]
                   ELSE IF f = "subtotal" THEN subtotal1
                   ELSE bk[f]]
    IN IF iqu # <<>> /\ unknown THEN Rejected("item_not_found")
       ELSE IF iqu # <<>> /\ ecap # "ok" THEN Rejected(ecap)
       ELSE IF iqu # <<>> /\ applied.err # "ok"
            THEN Abandoned(applied.err, booking, applied.booking_item,
                           applied.merchandise_variation)
       ELSE IF changed /\ ud1.booking_status \notin valid_transitions(old_booking_status)
            THEN Abandoned("invalid_transition", session_bks, items1, mvs1)
       ELSE IF "tip_amount" \in DOMAIN ud2 /\ ud2.tip_amount < 0
            THEN Abandoned("negative_tip", session_bks, items1, mvs1)
       ELSE IF DOMAIN ud2 \ allowed_fields # {}
            THEN Abandoned("field_not_allowed", session_bks, items1, mvs1)
       ELSE Result("ok", "ok", [booking EXCEPT ![c] = row], items2, mvs1)

-----------------------------------------------------------------------------
(* update_booking_item, lines 1443-1585.  item_in holds the fields set.   *)

\* the optional field f of a request, None when not set
Opt(r, f) == IF f \in DOMAIN r THEN r[f] ELSE None

\* crud.get_trip_boats_by_trip: the boats associated with a trip
BoatsOnTrip(t) == {k[2] : k \in {x \in DOMAIN trip_boat : x[1] = t}}

\* lines 1555-1577: subtotal from the items, tax and total when a rate is found
TotalsRecomputed(bk, items, c) ==
    LET ids == get_booking_items_in_display_order(items, c)
        new_subtotal == Subtotal(items, ItemIdsOf(items, c))
        rate == IF ids = <<>> THEN NoneInt ELSE tax_rate_of_trip(items[Head(ids)].trip_id)
        t == compute_booking_totals(new_subtotal, bk.discount_amount, rate, bk.tip_amount)
    IN IF rate = NoneInt THEN [bk EXCEPT !.subtotal = new_subtotal]
       ELSE [bk EXCEPT !.subtotal = new_subtotal,
                       !.tax_amount = t.tax,
                       !.total_amount = t.total]

update_booking_item(c, item_id, item_in) ==
    IF DOMAIN item_in = {} THEN Rejected("no_update_data")
    ELSE IF c \notin DOMAIN booking THEN Rejected("booking_not_found")
    ELSE IF item_id \notin ItemIdsOf(booking_item, c) THEN Rejected("item_not_found")
    ELSE IF ~IsTicket(booking_item[item_id]) THEN Rejected("merchandise_item")
    ELSE IF booking[c].booking_status = "checked_in" THEN Rejected("checked_in_locked")
    ELSE
    LET item == booking_item[item_id]
        new_boat_id == Opt(item_in, "boat_id")
        new_item_type == Opt(item_in, "item_type")
        effective_boat_id == IF new_boat_id # None THEN new_boat_id ELSE item.boat_id
        effective_item_type == IF new_item_type # None THEN new_item_type
                               ELSE item.item_type
        repriced == new_item_type # None \/ new_boat_id # None
        by_type == get_effective_pricing(item.trip_id, effective_boat_id)
        cap == DictGet(get_effective_capacity_per_ticket_type(
                           item.trip_id, effective_boat_id), effective_item_type)
        paid == get_paid_ticket_count_per_boat_per_item_type_for_trip(
                    booking, booking_item, item.trip_id, effective_boat_id,
                    effective_item_type)
        extra == IF effective_item_type # item.item_type
                    \/ effective_boat_id # item.boat_id
                 THEN item.quantity ELSE 0
        item1 == [item EXCEPT
                    !.status = IF Opt(item_in, "status") # None
                               THEN item_in.status ELSE @,
                    !.item_type = effective_item_type,
                    !.boat_id = effective_boat_id,
                    !.price_per_unit =
                        IF repriced THEN by_type[effective_item_type]
                        ELSE IF "price_per_unit" \in DOMAIN item_in
                             THEN item_in.price_per_unit ELSE @]
        items1 == [booking_item EXCEPT ![item_id] = item1]
    IN IF /\ new_boat_id # None /\ new_boat_id # item.boat_id
          /\ new_boat_id \notin BoatsOnTrip(item.trip_id)
       THEN Rejected("boat_not_on_trip")
       ELSE IF repriced /\ effective_item_type \notin DOMAIN by_type
            THEN Rejected("ticket_type_not_available")
       ELSE IF repriced /\ cap # NoneInt /\ paid + extra > cap
            THEN Rejected("type_capacity_exceeded")
       ELSE Result("ok", "ok",
                   [booking EXCEPT ![c] = TotalsRecomputed(booking[c], items1, c)],
                   items1, merchandise_variation)

-----------------------------------------------------------------------------
(* reschedule_booking, lines 1594-1744 *)

\* the per-type check that forgets the seats already paid at the target
RescheduleTypeCheck_own_only(c, target_trip_id, target_boat_id, i) ==
    LET T == {j \in ItemIdsOf(booking_item, c) : IsTicket(booking_item[j])}
        item_type == booking_item[i].item_type
        same == {j \in T : booking_item[j].item_type = item_type}
        qty == SumSet(same, [j \in same |-> booking_item[j].quantity])
        capacities == get_effective_capacity_per_ticket_type(target_trip_id,
                                                             target_boat_id)
        cap == DictGet(capacities, item_type)
    IN IF item_type \notin DOMAIN capacities THEN "no_capacity_configured"
       ELSE IF cap # NoneInt /\ qty > cap THEN "type_capacity_exceeded"
       ELSE "ok"

\* lines 1673-1702: per-type capacity at the target for one of the booking's types
RescheduleTypeCheck(c, target_trip_id, target_boat_id, i) ==
    LET T == {j \in ItemIdsOf(booking_item, c) : IsTicket(booking_item[j])}
        item_type == booking_item[i].item_type
        same == {j \in T : booking_item[j].item_type = item_type}
        qty == SumSet(same, [j \in same |-> booking_item[j].quantity])
        capacities == get_effective_capacity_per_ticket_type(target_trip_id,
                                                             target_boat_id)
        cap == DictGet(capacities, item_type)
        existing == get_paid_ticket_count_per_boat_per_item_type_for_trip(
                        booking, booking_item, target_trip_id, target_boat_id, item_type)
    IN IF item_type \notin DOMAIN capacities THEN "no_capacity_configured"
       ELSE IF cap # NoneInt /\ existing + qty > cap THEN "type_capacity_exceeded"
       ELSE "ok"

\* the move that takes the merchandise of the booking along with its tickets
Rescheduled_with_merchandise(items, T, target_trip_id, target_boat_id) ==
    [i \in DOMAIN items |->
        IF \E j \in T : items[j].booking_id = items[i].booking_id
        THEN [items[i] EXCEPT !.trip_id = target_trip_id,
                              !.boat_id = target_boat_id]
        ELSE items[i]]

\* lines 1729-1732: the ticket items T moved to the target trip and boat
Rescheduled(items, T, target_trip_id, target_boat_id) ==
    [i \in DOMAIN items |->
        IF i \in T
        THEN [items[i] EXCEPT !.trip_id = target_trip_id,
                              !.boat_id = target_boat_id]
        ELSE items[i]]

reschedule_booking(c, target_trip_id, boat_id) ==
    IF c \notin DOMAIN booking THEN Rejected("booking_not_found")
    ELSE IF booking[c].booking_status = "checked_in" THEN Rejected("checked_in_locked")
    ELSE
    LET ids == get_booking_items_in_display_order(booking_item, c)
        ticket_items == SelectSeq(ids, LAMBDA i : IsTicket(booking_item[i]))
        T == {ticket_items[k] : k \in DOMAIN ticket_items}
        trip_boats == BoatsOnTrip(target_trip_id)
        target_boat_id == IF Cardinality(trip_boats) = 1
                          THEN CHOOSE b \in trip_boats : TRUE
                          ELSE boat_id
        etype == FirstError([k \in DOMAIN ticket_items |->
                     RescheduleTypeCheck(c, target_trip_id, target_boat_id,
                                         ticket_items[k])])
        paid_total == get_paid_ticket_count_per_boat_for_trip(
                          booking, booking_item, target_trip_id, target_boat_id)
        this_booking_total == SumSet(T, [i \in T |-> booking_item[i].quantity])
    IN IF ticket_items = <<>> THEN Rejected("no_ticket_items")
       ELSE IF ~HasTrip(target_trip_id) THEN Rejected("trip_not_found")
       ELSE IF ~trip[target_trip_id].active THEN Rejected("trip_inactive")
       ELSE IF ~HasTrip(booking_item[Head(ticket_items)].trip_id)
            THEN Rejected("item_trip_not_found")
       ELSE IF trip[target_trip_id].mission_id
                  # trip[booking_item[Head(ticket_items)].trip_id].mission_id
            THEN Rejected("other_mission")
       ELSE IF trip_boats = {} THEN Rejected("trip_has_no_boats")
       ELSE IF Cardinality(trip_boats) > 1 /\ boat_id = None
            THEN Rejected("boat_id_required")
       ELSE IF Cardinality(trip_boats) > 1 /\ boat_id \notin trip_boats
            THEN Rejected("boat_not_on_trip")
       ELSE IF etype # "ok" THEN Rejected(etype)
       ELSE IF paid_total + this_booking_total
                  > effective_max(target_trip_id, target_boat_id)
            THEN Rejected("total_capacity_exceeded")
       ELSE Result("ok", "ok", booking,
                   Rescheduled(booking_item, T, target_trip_id, target_boat_id),
                   merchandise_variation)

-----------------------------------------------------------------------------
(* The store after construction: one mission, two trips, two boats, one     *)
(* merchandise item with one variation, no bookings.                        *)

\* everything but the mission: trips, boats, pricing, merchandise, codes
InitCatalogue ==
    /\ trip = [t \in {"T1", "T2"} |->
                  [mission_id |-> "M1", active |-> TRUE,
                   booking_mode |-> "public", sales_open_at |-> None]]
    /\ boat = [b \in {"B1", "B2"} |-> [capacity |-> 2]]
    /\ trip_boat =
           [k \in {<<"T1", "B1">>, <<"T1", "B2">>, <<"T2", "B1">>} |->
               [max_capacity |-> IF k = <<"T1", "B2">> THEN 1 ELSE NoneInt,
                use_only_trip_pricing |-> FALSE]]
    /\ boat_pricing =
           [k \in {<<"B1", "adult">>, <<"B1", "child">>, <<"B2", "adult">>} |->
               IF k[2] = "adult" THEN [price |-> 2, capacity |-> 2]
               ELSE [price |-> 1, capacity |-> 1]]
    /\ trip_boat_pricing =
           [k \in {<<"T2", "B1", "adult">>} |-> [price |-> 3, capacity |-> 1]]
    /\ merchandise = [m \in {"shirt"} |-> [price |-> 1]]
    /\ trip_merchandise =
           [k \in {"TM1"} |->
               [trip_id |-> "T1", merchandise_id |-> "shirt",
                quantity_available_override |-> NoneInt, price_override |-> NoneInt]]
    /\ discount_code =
           [k \in {"AC1"} |->
               [is_access_code |-> TRUE, is_active |-> TRUE,
                access_code_mission_id |-> None]]

InitReference ==
    /\ mission = [m \in {"M1"} |-> [active |-> TRUE, sales_tax_rate |-> 50]]
    /\ InitCatalogue

\* The same store where the launch of the mission may have no jurisdiction:
\* the tax rate resolved for its trips is 50 percent or none at all.
InitReferenceMoney ==
    /\ \E rate \in {50, NoneInt} :
           mission = [m \in {"M1"} |-> [active |-> TRUE, sales_tax_rate |-> rate]]
    /\ InitCatalogue

\* The reference tables of the admission scenario.  Missions: M1 and M2
\* active, M3 inactive.  Trips: T1 public, T2 public before its sales_open_at
\* (early_bird in effect), T3 private, T4 inactive, T5 of mission M2, T6 of the
\* inactive mission, T7 of a mission that is gone.  Boat B1 sells adult, child
\* (free) and adult_ticket seats, boat B2 adult_ticket seats only; the price
\* of adult_ticket is any price from 0 up.  Trip T2 overrides the adult price.
\* The shirt is capped at one unit for trip T1.
InitReferenceAdmit ==
    /\ mission = [m \in {"M1", "M2", "M3"} |->
                     [active |-> m # "M3", sales_tax_rate |-> 50]]
    /\ trip = [t \in {"T1", "T2", "T3", "T4", "T5", "T6", "T7"} |->
                  [mission_id |-> CASE t = "T5" -> "M2" [] t = "T6" -> "M3"
                                    [] t = "T7" -> "M9" [] OTHER -> "M1",
                   active |-> t # "T4",
                   booking_mode |-> IF t = "T3" THEN "private" ELSE "public",
                   sales_open_at |-> IF t = "T2" THEN "future" ELSE None]]
    /\ boat = [b \in {"B1", "B2"} |-> [capacity |-> 2]]
    /\ trip_boat =
           [k \in {<<t, "B1">> : t \in {"T1", "T2", "T3", "T4", "T5", "T6", "T7"}}
                   \cup {<<"T1", "B2">>} |->
               [max_capacity |-> NoneInt, use_only_trip_pricing |-> FALSE]]
    /\ \E p \in 0..MaxPrice :
           boat_pricing =
               [k \in {<<"B1", "adult">>, <<"B1", "child">>,
                       <<"B1", "adult_ticket">>, <<"B2", "adult_ticket">>} |->
                   CASE k[2] = "adult" -> [price |-> 2, capacity |-> 2]
                     [] k[2] = "child" -> [price |-> 0, capacity |-> 1]
                     [] OTHER -> [price |-> p, capacity |-> NoneInt]]
    /\ trip_boat_pricing =
           [k \in {<<"T2", "B1", "adult">>} |-> [price |-> 1, capacity |-> NoneInt]]
    /\ merchandise = [m \in {"shirt"} |-> [price |-> 1]]
    /\ trip_merchandise =
           [k \in {"TM1", "TM5"} |->
               [trip_id |-> IF k = "TM1" THEN "T1" ELSE "T5",
                merchandise_id |-> "shirt",
                quantity_available_override |-> 1, price_override |-> NoneInt]]
    /\ discount_code =
           [k \in {"AC1", "AC2", "AC3", "AC4", "AC5"} |->
               [is_access_code |-> k # "AC4", is_active |-> k # "AC5",
                access_code_mission_id |->
                    CASE k = "AC2" -> "M1" [] k = "AC3" -> "M2" [] OTHER -> None]]

\* nothing logged yet
NoRequest ==
    [op |-> "none", outcome |-> "ok", err |-> "ok", by |-> None, code |-> 0,
     was |-> None]

\* no round trip under way
NoTrail == [code |-> 0, stage |-> "none", before |-> <<>>]

InitStore ==
    /\ merchandise_variation =
           [v \in {"V1"} |->
               [merchandise_id |-> "shirt", variant_value |-> "M",
                quantity_total |-> 2, quantity_sold |-> 0, quantity_fulfilled |-> 0]]
    /\ booking = <<>>
    /\ booking_item = <<>>
    /\ last = NoRequest
    /\ trail = NoTrail

-----------------------------------------------------------------------------
(* Scenarios.  Every behaviour serves one family of requests:               *)
(*   "life"  one booking of a ticket and a shirt through its whole life,    *)
(*           creation faults included, every response logged;               *)
(*   "seats" two bookings of seats on trip T1, boat B1;                     *)
(*   "stock" two bookings of shirts, the round trip of the latest tracked;  *)
(*   "race"  two create_booking calls interleaved step by step;             *)
(*   "paid"  one booking paid through the gateway and then refunded;        *)
(*   "purge" two bookings of seats and shirts, their items removed one by   *)
(*           one, with the booking or with their trip;                      *)
(*   "admin" one booking of seats and the administrative capacity routes;  *)
(*   "money" one booking whose quantities, tip and discount are patched,    *)
(*           with and without a tax rate for its mission;                   *)
(*   "refunds" two process_refund calls on one paid booking, interleaved   *)
(*           step by step;                                                   *)
(*   "move"  two bookings of seats rescheduled among the trips of the       *)
(*           admission reference tables;                                    *)
(*   "admit" create requests of every kind, valid and invalid, by anonymous *)
(*           callers and superusers, against the admission reference tables. *)

\* the response log is kept
Logged == scn \in {"life", "paid", "admit"}

\* rejected requests are logged as well
LogsRejections == scn \in {"paid", "admit"}

\* the admit/refund round trip is tracked
Tracked == scn = "stock"

\* the confirmation codes clients submit
\* (one booking in the life and admin scenarios, two in move and purge)
Codes ==
    CASE scn \in {"life", "admin", "money"} -> {1}
      [] scn \in {"move", "purge"} -> {1, 2}
      [] OTHER -> 1..MaxBookings

-----------------------------------------------------------------------------
(* Requests *)

\* a ticket line as an honest client submits it: the effective price, active
TicketItem(t, b, ty, q) ==
    [trip_id |-> t, boat_id |-> b, trip_merchandise_id |-> None, item_type |-> ty,
     quantity |-> q, price_per_unit |-> EffectivePrice(t, b, ty),
     status |-> "active", variant_option |-> None]

\* a merchandise line of the shirt in variant "M" bought with trip T1 on boat B1
MerchandiseItem(q, st) ==
    [trip_id |-> "T1", boat_id |-> "B1", trip_merchandise_id |-> "TM1",
     item_type |-> "shirt", quantity |-> q, price_per_unit |-> 1,
     status |-> st, variant_option |-> "M"]

\* the non-empty sequences over I of at most n elements
ItemSeqs(I, n) == UNION {[1..k -> I] : k \in 1..n}

\* a create request whose money fields are what the totals calculator gives
CreateRequest(code, items) ==
    LET sub == SumSet(DOMAIN items,
                      [i \in DOMAIN items |-> items[i].quantity * items[i].price_per_unit])
        t == compute_booking_totals(sub, 0, tax_rate_of_trip(items[1].trip_id), 0)
    IN [confirmation_code |-> code, items |-> items, discount_code_id |-> None,
        first_name |-> "a",
        subtotal |-> sub, discount_amount |-> 0, tax_amount |-> t.tax,
        tip_amount |-> 0, total_amount |-> t.total]

\* the same when the mission has no tax rate: the client charges no tax
MoneyRequest(code, items) ==
    LET req == CreateRequest(code, items)
    IN IF tax_rate_of_trip(items[1].trip_id) # NoneInt THEN req
       ELSE [req EXCEPT !.tax_amount = 0, !.total_amount = req.subtotal]

\* the confirmation code of the next booking: the smallest one not in use
FreeCodes ==
    LET F == Codes \ DOMAIN booking
    IN IF F = {} THEN {} ELSE {CHOOSE c \in F : \A d \in F : c <= d}

\* the item lists a create request may carry in each scenario
ItemLists ==
    CASE scn \in {"seats", "move"} ->
             ItemSeqs({TicketItem("T1", "B1", ty, q) :
                          ty \in {"adult", "child"}, q \in 1..MaxQty}, 1)
      [] scn = "life" ->
             {<<TicketItem("T1", "B1", "adult", 1)>>,
              <<MerchandiseItem(1, "active")>>,
              <<TicketItem("T1", "B1", "adult", 1), MerchandiseItem(1, "active")>>}
      [] scn = "admin" ->
             {<<TicketItem("T1", "B1", "adult", q)>> : q \in 1..MaxQty}
      [] scn = "money" ->
             {<<TicketItem("T1", "B1", "adult", q)>> : q \in 1..MaxQty}
             \cup {<<TicketItem("T1", "B1", "adult", 1), MerchandiseItem(1, "active")>>}
      [] scn = "purge" ->
             ItemSeqs({TicketItem("T1", "B1", "adult", 1)}
                      \cup {MerchandiseItem(q, "active") : q \in 1..MaxQty}, 2)
      [] scn = "stock" ->
             ItemSeqs({MerchandiseItem(q, "active") : q \in 1..MaxQty}, MaxItems)
             \cup ItemSeqs({MerchandiseItem(1, "fulfilled")}, 1)
      [] OTHER ->
             ItemSeqs({MerchandiseItem(q, "active") : q \in 1..MaxQty}, 1)

\* a ticket line with the price the client asserts
PricedItem(t, b, ty, q, p) ==
    [trip_id |-> t, boat_id |-> b, trip_merchandise_id |-> None, item_type |-> ty,
     quantity |-> q, price_per_unit |-> p,
     status |-> "active", variant_option |-> None]

\* a create request without items
EmptyRequest(code) ==
    [confirmation_code |-> code, items |-> <<>>, discount_code_id |-> None,
     first_name |-> "a", subtotal |-> 0, discount_amount |-> 0, tax_amount |-> 0,
     tip_amount |-> 0, total_amount |-> 0]

\* a request carrying a discount code
WithAccessCode(req, dc) == [req EXCEPT !.discount_code_id = dc]

\* one adult seat on a public, an early_bird and a private trip, with every
\* kind of discount code on the early_bird one
AccessRequests ==
    {WithAccessCode(CreateRequest(1, <<PricedItem("T2", "B1", "adult", 1, 1)>>), dc) :
        dc \in {None, "AC9"} \cup DOMAIN discount_code}
    \cup {WithAccessCode(CreateRequest(1, <<PricedItem(t, "B1", "adult", 1, 2)>>), dc) :
              t \in {"T1", "T3"}, dc \in {None, "AC1"}}

\* one seat of every type at every price, on both boats of trip T1 and on the
\* trip that overrides the adult price
PricingRequests ==
    {CreateRequest(1, <<PricedItem("T1", b, ty, 1, p)>>) :
        b \in {"B1", "B2"}, ty \in {"adult", "adult_ticket", "child", "Adult"},
        p \in 0..MaxPrice}
    \cup {WithAccessCode(CreateRequest(1, <<PricedItem("T2", "B1", "adult", 1, p)>>),
                         "AC1") : p \in 0..MaxPrice}

\* requests that break one validation step each, and the seats and shirts
\* that fill the boat and the stock
ValidationRequests ==
    {EmptyRequest(1)}
    \cup {CreateRequest(1, <<PricedItem(t, "B1", "adult", 1, 2)>>) :
              t \in {"T4", "T5", "T6", "T7", "T9"}}
    \cup {CreateRequest(1, <<PricedItem("T1", "B1", "adult", 1, 2),
                             PricedItem("T5", "B1", "adult", 1, 2)>>)}
    \cup {CreateRequest(1, <<PricedItem(t, b, "adult", 1, 2)>>) :
              t \in {"T1", "T5"}, b \in {"B2", "B9"}}
    \cup {CreateRequest(1, <<PricedItem("T1", "B1", "adult", q, 2)>>) : q \in 1..MaxQty}
    \cup {CreateRequest(1, <<MerchandiseItem(q, "active")>>) : q \in 1..MaxQty}
    \cup {CreateRequest(1, <<[MerchandiseItem(1, "active") EXCEPT
                                 !.trip_merchandise_id = tm]>>) :
              tm \in {"TM5", "TM9"}}
    \cup {CreateRequest(1, <<[MerchandiseItem(1, "active") EXCEPT
                                 !.variant_option = vo]>>) : vo \in {"XL", None}}
    \cup {CreateRequest(1, <<[MerchandiseItem(1, "active") EXCEPT
                                 !.price_per_unit = 2]>>)}

AdmitRequests == AccessRequests \cup PricingRequests \cup ValidationRequests

CreateInputs ==
    IF scn = "admit" THEN AdmitRequests
    ELSE IF scn = "money"
    THEN {MoneyRequest(c, items) : c \in FreeCodes, items \in ItemLists}
    ELSE {CreateRequest(c, items) :
             c \in FreeCodes,
             items \in ItemLists}

\* who calls create_booking
Users == IF scn = "admit" THEN {"anonymous", "superuser"} ELSE {"anonymous"}

\* where a create request breaks in each scenario
FaultInputs == IF scn = "life" THEN CreateFaults ELSE {"none"}

\* PATCH bodies: a status, or a new quantity for one item (in the life
\* scenario: removal, one, the largest quantity)
UpdateInputs(c) ==
    IF scn \in {"admit", "admin", "move"}
    THEN {[booking_status |-> s] : s \in {"confirmed", "cancelled"}}
    ELSE IF scn = "money"
    THEN {[tip_amount |-> t] : t \in {0 - 1, 1}}
         \cup {[discount_amount |-> 1], [total_amount |-> 1]}
         \cup {[item_quantity_updates |-> <<[id |-> i, quantity |-> q]>>] :
                   i \in ItemIdsOf(booking_item, c), q \in 0..MaxQty}
    ELSE
    {[booking_status |-> s] : s \in BookingStatus}
    \cup {[item_quantity_updates |-> <<[id |-> i, quantity |-> q]>>] :
              i \in ItemIdsOf(booking_item, c),
              q \in IF scn = "life" THEN {0, 1, MaxQty} ELSE 0..MaxQty}

\* bodies of the item PATCH
ItemUpdateInputs ==
    {[item_type |-> ty] : ty \in {"adult", "child"}}
    \cup {[boat_id |-> b] : b \in {"B1", "B2"}}

\* every refund amount of the model: none given, negative, zero, positive
RefundAmounts == {NoneInt, 0 - 2} \cup 0..MaxRefund

\* refund amounts: the whole remainder and, in the life scenario, one cent
RefundInputs ==
    CASE scn = "life" -> {NoneInt, 1}
      [] scn = "paid" -> RefundAmounts
      [] OTHER -> {NoneInt}

\* whether the payment gateway accepts a refund; it is only called for the
\* bookings of the paid scenario, the others have no payment intent
GatewayInputs == IF scn = "paid" THEN BOOLEAN ELSE {TRUE}

\* the optional (trip_id, boat_id) context of a check-in
CheckInInputs ==
    IF scn = "life" THEN {<<None, None>>, <<"T1", "B1">>} ELSE {<<None, None>>}

-----------------------------------------------------------------------------
(* The round trip create -> confirm -> (check-in) -> full refund of one     *)
(* booking, with the counters as they were before its create_booking call.  *)

\* booking_status of booking c in a table, None when there is no such row
StatusOf(bks, c) == IF c \in DOMAIN bks THEN bks[c].booking_status ELSE None

TrailAfter(op, c, r) ==
    IF r.outcome = "rejected" THEN trail
    ELSE IF op = "create_booking" /\ r.outcome = "ok"
         THEN [code |-> c, stage |-> "created", before |-> merchandise_variation]
    ELSE IF /\ trail.code = c /\ trail.stage = "created" /\ op = "update_booking"
            /\ StatusOf(booking, c) = "draft"
            /\ StatusOf(r.booking, c) = "confirmed"
            /\ r.booking_item = booking_item
         THEN [trail EXCEPT !.stage = "confirmed"]
    ELSE IF /\ trail.code = c /\ trail.stage = "confirmed" /\ op = "check_in_booking"
         THEN [trail EXCEPT !.stage = "checked_in"]
    ELSE IF /\ trail.code = c /\ trail.stage \in {"confirmed", "checked_in"}
            /\ op = "process_refund"
            /\ r.booking[c].refunded_amount_cents = r.booking[c].total_amount
         THEN [trail EXCEPT !.stage = "refunded"]
    ELSE NoTrail

-----------------------------------------------------------------------------
(* Actions: one per route *)

\* the stock counters stay within the range the model follows
CountersWithin(mvs) ==
    \A v \in DOMAIN mvs :
        mvs[v].quantity_sold <= MaxCount /\ mvs[v].quantity_fulfilled <= MaxCount

\* commit what the handler left and record the response to the caller `by`
RespondTo(by, op, c, r) ==
    /\ CountersWithin(r.merchandise_variation)
    /\ merchandise_variation' = r.merchandise_variation
    /\ booking' = r.booking
    /\ booking_item' = r.booking_item
    /\ last' = IF Logged /\ (r.outcome # "rejected" \/ LogsRejections)
               THEN [op |-> op, outcome |-> r.outcome, err |-> r.err, by |-> by,
                     code |-> c, was |-> StatusOf(booking, c)]
               ELSE last
    /\ trail' = IF Tracked THEN TrailAfter(op, c, r) ELSE trail
    /\ UNCHANGED <<refvars, proc, scn>>

\* the same for the routes whose outcome does not depend on the caller
Respond(op, c, r) == RespondTo(None, op, c, r)

CreateBooking ==
    \E req \in CreateInputs : \E by \in Users : \E fault \in FaultInputs :
        RespondTo(by, "create_booking", req.confirmation_code,
                  create_booking(req, by, fault))

DeleteBooking ==
    \E c \in DOMAIN booking : Respond("delete_booking", c, delete_booking(c))

UpdateBooking ==
    \E c \in DOMAIN booking : \E req \in UpdateInputs(c) :
        Respond("update_booking", c, update_booking(c, req))

UpdateBookingItem ==
    \E c \in DOMAIN booking : \E i \in ItemIdsOf(booking_item, c) :
        \E item_in \in ItemUpdateInputs :
            Respond("update_booking_item", c, update_booking_item(c, i, item_in))

RescheduleBooking ==
    \E c \in DOMAIN booking : \E t \in DOMAIN trip : \E b \in {None} \cup DOMAIN boat :
        Respond("reschedule_booking", c, reschedule_booking(c, t, b))

CheckInBooking ==
    \E c \in DOMAIN booking : \E ctx \in CheckInInputs :
        Respond("check_in_booking", c, check_in_booking(c, ctx[1], ctx[2]))

RevertCheckIn ==
    \E c \in DOMAIN booking : Respond("revert_check_in", c, revert_check_in(c))

ProcessRefund ==
    \E c \in DOMAIN booking : \E a \in RefundInputs : \E g \in GatewayInputs :
        Respond("process_refund", c, process_refund(c, a, g))

-----------------------------------------------------------------------------
(* Two create_booking calls in flight.  Each call runs _create_booking_impl  *)
(* in its own session: the validation reads (lines 96-434), the commit of    *)
(* the booking and its items (line 495), the reload of the variations and    *)
(* the in-memory += (lines 500-507), the commit that writes the counters     *)
(* (line 508), the scannable code (lines 514-521).  No lock is taken.        *)

\* a call not yet made
IdleCall == [pc |-> "idle", req |-> <<>>, seen |-> <<>>]

\* lines 96-434: process p validates its request against the committed rows
Validate(p) ==
    /\ proc[p].pc = "idle"
    /\ \E items \in ItemLists :
           LET req == CreateRequest(p, items)
               e == create_booking_validate(booking, booking_item,
                                            merchandise_variation, req, "anonymous")
           IN proc' = [proc EXCEPT ![p] =
                         [pc |-> IF e = "ok" THEN "validated" ELSE "rejected",
                          req |-> req, seen |-> <<>>]]
    /\ UNCHANGED <<refvars, dbvars, last, trail, scn>>

\* lines 489-495: the booking and its items are committed
Persist(p) ==
    /\ proc[p].pc = "validated"
    /\ booking' = WithNewBooking(booking, proc[p].req)
    /\ booking_item' = WithNewItems(booking_item, merchandise_variation, proc[p].req)
    /\ proc' = [proc EXCEPT ![p].pc = "persisted"]
    /\ UNCHANGED <<refvars, merchandise_variation, last, trail, scn>>

\* lines 500-507: session.get reloads each variation; the sum is made in memory
ReadCounters(p) ==
    /\ proc[p].pc = "persisted"
    /\ proc' = [proc EXCEPT
                   ![p].pc = "counted",
                   ![p].seen = [v \in DOMAIN merchandise_variation |->
                                   merchandise_variation[v].quantity_sold]]
    /\ UNCHANGED <<refvars, dbvars, last, trail, scn>>

\* line 508: the commit writes the summed value of every variation touched
WriteCounters(p) ==
    /\ proc[p].pc = "counted"
    /\ merchandise_variation' =
           [v \in DOMAIN merchandise_variation |->
               LET held == HeldOn(booking_item, ItemIdsOf(booking_item, p), v)
               IN IF held > 0
                  THEN [merchandise_variation[v] EXCEPT
                           !.quantity_sold = proc[p].seen[v] + held]
                  ELSE merchandise_variation[v]]
    /\ proc' = [proc EXCEPT ![p].pc = "written"]
    /\ UNCHANGED <<refvars, booking, booking_item, last, trail, scn>>

\* lines 514-521: the scannable code is stored and the booking returned
Finish(p) ==
    /\ proc[p].pc = "written"
    /\ proc' = [proc EXCEPT ![p].pc = "done"]
    /\ UNCHANGED <<refvars, dbvars, last, trail, scn>>

NextRace ==
    \/ \E p \in DOMAIN proc : Validate(p)
    \/ \E p \in DOMAIN proc : Persist(p)
    \/ \E p \in DOMAIN proc : ReadCounters(p)
    \/ \E p \in DOMAIN proc : WriteCounters(p)
    \/ \E p \in DOMAIN proc : Finish(p)

Next ==
    \/ CreateBooking
    \/ DeleteBooking
    \/ UpdateBooking
    \/ UpdateBookingItem
    \/ RescheduleBooking
    \/ CheckInBooking
    \/ RevertCheckIn
    \/ ProcessRefund

\* the routes that touch merchandise stock
NextStock ==
    \/ CreateBooking
    \/ DeleteBooking
    \/ UpdateBooking
    \/ CheckInBooking
    \/ RevertCheckIn
    \/ ProcessRefund

Init == InitReference /\ InitStore /\ proc = <<>> /\ scn = "life"
InitSeats == InitReference /\ InitStore /\ proc = <<>> /\ scn = "seats"
InitStock == InitReference /\ InitStore /\ proc = <<>> /\ scn = "stock"

InitRace ==
    /\ InitReference /\ InitStore /\ scn = "race"
    /\ proc = [p \in 1..MaxBookings |-> IdleCall]

\* the paid scenario starts from a booking the payment flow has confirmed: one
\* adult seat and one shirt, paid through the gateway (payment intent "pi_1")
InitPaid ==
    /\ InitReference
    /\ LET req == CreateRequest(1, <<TicketItem("T1", "B1", "adult", 1),
                                     MerchandiseItem(1, "active")>>)
           mvs0 == [v \in {"V1"} |->
                       [merchandise_id |-> "shirt", variant_value |-> "M",
                        quantity_total |-> 2, quantity_sold |-> 0,
                        quantity_fulfilled |-> 0]]
           items1 == WithNewItems(<<>>, mvs0, req)
       IN /\ booking = [c \in {1} |->
                            [NewBooking(req) EXCEPT !.booking_status = "confirmed",
                                                    !.payment_status = "paid",
                                                    !.payment_intent_id = "pi_1"]]
          /\ booking_item = items1
          /\ merchandise_variation = SoldIncremented(mvs0, items1, DOMAIN items1)
    /\ last = NoRequest
    /\ trail = NoTrail
    /\ proc = <<>>
    /\ scn = "paid"

\* the routes that serve a booking once it is paid
NextPaid ==
    \/ UpdateBooking
    \/ CheckInBooking
    \/ RevertCheckIn
    \/ ProcessRefund

InitMoney == InitReferenceMoney /\ InitStore /\ proc = <<>> /\ scn = "money"

\* the routes that write the money fields of a booking
NextMoney ==
    \/ CreateBooking
    \/ DeleteBooking
    \/ UpdateBooking
    \/ UpdateBookingItem

InitAdmit == InitReferenceAdmit /\ InitStore /\ proc = <<>> /\ scn = "admit"

\* crud.delete_trip: the trip and all related data; the tables it leaves
delete_trip(trip_id) ==
    IF ~HasTrip(trip_id)
    THEN [trip |-> trip, trip_boat |-> trip_boat,
          trip_boat_pricing |-> trip_boat_pricing,
          trip_merchandise |-> trip_merchandise, booking_item |-> booking_item]
    ELSE [trip |-> DropKeys(trip, {trip_id}),
          trip_boat |-> DropKeys(trip_boat, {k \in DOMAIN trip_boat : k[1] = trip_id}),
          trip_boat_pricing |->
              DropKeys(trip_boat_pricing,
                       {k \in DOMAIN trip_boat_pricing : k[1] = trip_id}),
          trip_merchandise |->
              DropKeys(trip_merchandise,
                       {k \in DOMAIN trip_merchandise :
                           trip_merchandise[k].trip_id = trip_id}),
          booking_item |->
              DropKeys(booking_item,
                       {i \in DOMAIN booking_item :
                           booking_item[i].trip_id = trip_id})]

DeleteTrip ==
    \E t \in DOMAIN trip :
        LET r == delete_trip(t)
        IN /\ trip' = r.trip
           /\ trip_boat' = r.trip_boat
           /\ trip_boat_pricing' = r.trip_boat_pricing
           /\ trip_merchandise' = r.trip_merchandise
           /\ booking_item' = r.booking_item
           /\ UNCHANGED <<mission, boat, boat_pricing, merchandise, discount_code,
                          merchandise_variation, booking, last, trail, proc, scn>>

InitPurge == InitReference /\ InitStore /\ proc = <<>> /\ scn = "purge"

\* the routes that remove booking items
NextPurge ==
    \/ CreateBooking
    \/ UpdateBooking
    \/ DeleteBooking
    \/ DeleteTrip

InitMove == InitReferenceAdmit /\ InitStore /\ proc = <<>> /\ scn = "move"

\* the routes of the rescheduling scenario
NextMove ==
    \/ CreateBooking
    \/ UpdateBooking
    \/ CheckInBooking
    \/ RescheduleBooking

\* the routes of the admission scenario
NextAdmit ==
    \/ CreateBooking
    \/ UpdateBooking
    \/ DeleteBooking

-----------------------------------------------------------------------------
(* Administrative mutations of the capacity tables.  A result carries the  *)
(* outcome and the four tables as committed; a rejected request carries    *)
(* them unchanged.                                                          *)

AdminResult(outcome, err, bo, tb, bp, tbp) ==
    [outcome |-> outcome, err |-> err, boat |-> bo, trip_boat |-> tb,
     boat_pricing |-> bp, trip_boat_pricing |-> tbp]

AdminRejected(err) ==
    AdminResult("rejected", err, boat, trip_boat, boat_pricing, trip_boat_pricing)

\* PUT /boats/{boat_id} with a body naming the capacity (NoneInt: not named)
update_boat(b, capacity) ==
    IF ~HasBoat(b) THEN AdminRejected("boat_not_found")
    ELSE IF /\ capacity # NoneInt
            /\ \E k \in DOMAIN trip_boat :
                  /\ k[2] = b
                  /\ trip_boat[k].max_capacity = NoneInt
                  /\ get_paid_ticket_count_per_boat_for_trip(
                         booking, booking_item, k[1], b) > capacity
         THEN AdminRejected("capacity_below_booked")
    ELSE AdminResult("ok", "ok",
                     IF capacity = NoneInt THEN boat
                     ELSE [boat EXCEPT ![b].capacity = capacity],
                     trip_boat, boat_pricing, trip_boat_pricing)

\* POST /trip-boats
create_trip_boat(t, b, max_capacity) ==
    IF ~HasTrip(t) THEN AdminRejected("trip_not_found")
    ELSE IF ~HasBoat(b) THEN AdminRejected("boat_not_found")
    ELSE IF /\ max_capacity # NoneInt
            /\ max_capacity < get_paid_ticket_count_per_boat_for_trip(
                                  booking, booking_item, t, b)
         THEN AdminRejected("capacity_below_booked")
    ELSE AdminResult("ok", "ok", boat,
                     PutRow(trip_boat, <<t, b>>,
                            [max_capacity |-> max_capacity,
                             use_only_trip_pricing |-> FALSE]),
                     boat_pricing, trip_boat_pricing)

\* the (trip, boat) a trip-boat row is on after an update: the ids the body
\* names, the current ones otherwise
TripBoatTarget(k, body) ==
    <<IF body.trip_id # None THEN body.trip_id ELSE k[1],
      IF body.boat_id # None THEN body.boat_id ELSE k[2]>>

\* the TripBoatPricing rows with those of trip-boat k carried to its new
\* (trip, boat): the rows hang on the trip-boat row, not on the pair
CarryPricing(k, n) ==
    LET moved == {x \in DOMAIN trip_boat_pricing : <<x[1], x[2]>> = k}
        kept == DOMAIN trip_boat_pricing \ moved
    IN [x \in kept \cup {<<n[1], n[2], y[3]>> : y \in moved} |->
           IF <<x[1], x[2]>> = n /\ <<k[1], k[2], x[3]>> \in moved
           THEN trip_boat_pricing[<<k[1], k[2], x[3]>>]
           ELSE trip_boat_pricing[x]]

\* PUT /trip-boats/{trip_boat_id}; body = [trip_id, boat_id, max_capacity],
\* None and NoneInt for the fields the body leaves out
update_trip_boat(k, body) ==
    IF k \notin DOMAIN trip_boat THEN AdminRejected("trip_boat_not_found")
    ELSE IF body.trip_id # None /\ ~HasTrip(body.trip_id)
         THEN AdminRejected("trip_not_found")
    ELSE IF body.boat_id # None /\ ~HasBoat(body.boat_id)
         THEN AdminRejected("boat_not_found")
    ELSE LET n == TripBoatTarget(k, body)
         IN IF /\ body.max_capacity # NoneInt
               /\ body.max_capacity < get_paid_ticket_count_per_boat_for_trip(
                                          booking, booking_item, n[1], n[2])
            THEN AdminRejected("capacity_below_booked")
            ELSE AdminResult("ok", "ok", boat,
                     PutRow(DropKeys(trip_boat, {k}), n,
                            [trip_boat[k] EXCEPT
                                !.max_capacity =
                                    IF body.max_capacity # NoneInt
                                    THEN body.max_capacity ELSE @]),
                     boat_pricing, CarryPricing(k, n))

\* the re-check of a per-type capacity against the paid seats of one
\* (trip, boat): a restricting capacity may not go below them
TypeFloorCheck(t, b, ty, capacity) ==
    \/ capacity = NoneInt
    \/ capacity = 0
    \/ get_paid_ticket_count_per_boat_per_item_type_for_trip(
           booking, booking_item, t, b, ty) <= capacity

\* crud.update_boat_pricing behind its route: the route re-checks the paid
\* seats of every trip of the boat that inherits the capacity, the crud
\* function writes the capacity the body names
update_boat_pricing(k, capacity) ==
    IF k \notin DOMAIN boat_pricing THEN AdminRejected("boat_pricing_not_found")
    ELSE IF \E tb \in DOMAIN trip_boat :
               /\ tb[2] = k[1]
               /\ UsesBoatDefaults(tb[1], tb[2])
               /\ ~(/\ <<tb[1], tb[2], k[2]>> \in DOMAIN trip_boat_pricing
                    /\ trip_boat_pricing[<<tb[1], tb[2], k[2]>>].capacity # NoneInt)
               /\ ~TypeFloorCheck(tb[1], tb[2], k[2], capacity)
         THEN AdminRejected("capacity_below_booked")
    ELSE AdminResult("ok", "ok", boat, trip_boat,
                     [boat_pricing EXCEPT ![k].capacity = capacity],
                     trip_boat_pricing)

\* crud.update_trip_boat_pricing behind its route; a capacity of NoneInt is
\* an explicit null: the type inherits the boat-level capacity again
update_trip_boat_pricing(k, capacity) ==
    IF k \notin DOMAIN trip_boat_pricing
    THEN AdminRejected("trip_boat_pricing_not_found")
    ELSE IF ~TypeFloorCheck(k[1], k[2], k[3],
                IF capacity # NoneInt THEN capacity
                ELSE IF <<k[2], k[3]>> \in DOMAIN boat_pricing
                     THEN boat_pricing[<<k[2], k[3]>>].capacity
                     ELSE NoneInt)
         THEN AdminRejected("capacity_below_booked")
    ELSE AdminResult("ok", "ok", boat, trip_boat, boat_pricing,
                     [trip_boat_pricing EXCEPT ![k].capacity = capacity])

\* commit the tables of an administrative result
AdminRespond(r) ==
    /\ boat' = r.boat
    /\ trip_boat' = r.trip_boat
    /\ boat_pricing' = r.boat_pricing
    /\ trip_boat_pricing' = r.trip_boat_pricing
    /\ UNCHANGED <<mission, trip, merchandise, trip_merchandise, discount_code,
                   dbvars, last, trail, proc, scn>>

\* the capacities administrative requests name for a boat or a ticket type
Capacities == 1..MaxCapacity

\* the custom capacities they name for a trip-boat: none, or the smallest
CustomCapacities == {NoneInt, 1}

\* bodies of the trip-boat PUT: a new trip, a new boat, a custom capacity or
\* several of them; the row never lands on a (trip, boat) that has one
TripBoatUpdates(k) ==
    {body \in [trip_id : {None} \cup DOMAIN trip,
               boat_id : {None} \cup DOMAIN boat,
               max_capacity : CustomCapacities] :
        \/ TripBoatTarget(k, body) = k
        \/ TripBoatTarget(k, body) \notin DOMAIN trip_boat}

UpdateBoat ==
    \E capacity \in Capacities :
        AdminRespond(update_boat("B1", capacity))

CreateTripBoat ==
    \E t \in DOMAIN trip : \E b \in DOMAIN boat :
        \E max_capacity \in CustomCapacities :
            /\ ~HasTripBoat(t, b)
            /\ AdminRespond(create_trip_boat(t, b, max_capacity))

UpdateTripBoat ==
    \E k \in DOMAIN trip_boat : \E body \in TripBoatUpdates(k) :
        AdminRespond(update_trip_boat(k, body))

UpdateBoatPricing ==
    \E capacity \in {0} \cup Capacities :
        AdminRespond(update_boat_pricing(<<"B1", "adult">>, capacity))

UpdateTripBoatPricing ==
    \E k \in DOMAIN trip_boat_pricing : \E capacity \in {NoneInt, 1} :
        AdminRespond(update_trip_boat_pricing(k, capacity))

InitAdmin == InitReference /\ InitStore /\ proc = <<>> /\ scn = "admin"

\* bookings of adult seats on trip T1, boat B1, and the administrative routes
NextAdmin ==
    \/ CreateBooking
    \/ UpdateBooking
    \/ UpdateBoat
    \/ CreateTripBoat
    \/ UpdateTripBoat
    \/ UpdateBoatPricing
    \/ UpdateTripBoatPricing

Spec == Init /\ [][Next]_vars
SpecAdmin == InitAdmin /\ [][NextAdmin]_vars
SpecAdmit == InitAdmit /\ [][NextAdmit]_vars
SpecMove == InitMove /\ [][NextMove]_vars
SpecMoney == InitMoney /\ [][NextMoney]_vars
SpecPaid == InitPaid /\ [][NextPaid]_vars
SpecPurge == InitPurge /\ [][NextPurge]_vars
SpecSeats == InitSeats /\ [][Next]_vars
SpecStock == InitStock /\ [][NextStock]_vars
SpecRace == InitRace /\ [][NextRace]_vars

-----------------------------------------------------------------------------
(* Seat ledger properties *)

\* C1: for every (trip, boat) the ticket quantities held by paid bookings
\* (confirmed, checked_in or completed, and not refunded) sum to at most the
\* effective max capacity: TripBoat.max_capacity if set, else Boat.capacity.
TotalSeatInvariant ==
    \A k \in DOMAIN trip_boat :
        get_paid_ticket_count_per_boat_for_trip(booking, booking_item, k[1], k[2])
            <= effective_max(k[1], k[2])

\* C2: for every (trip, boat, ticket type) whose effective per-type capacity
\* restricts, the quantities of that type held by paid bookings sum to at
\* most that capacity.
PerTypeSeatInvariant ==
    \A k \in DOMAIN trip_boat :
        \A ty \in DOMAIN get_effective_capacity_per_ticket_type(k[1], k[2]) :
            LET cap == get_effective_capacity_per_ticket_type(k[1], k[2])[ty]
            IN cap # NoneInt =>
                   get_paid_ticket_count_per_boat_per_item_type_for_trip(
                       booking, booking_item, k[1], k[2], ty) <= cap

-----------------------------------------------------------------------------
(* Admission properties *)

\* the call of process p has committed its booking
Persisted(p) == proc[p].pc \in {"persisted", "counted", "written", "done"}

\* C3: two concurrent create_booking calls whose merchandise requests the
\* stock satisfies one at a time but not together never both pass the
\* availability check and persist their bookings: whatever two calls have
\* persisted holds, per variation, at most the stock there was (nothing was
\* sold when the calls began).
LastUnitRace ==
    \A p \in DOMAIN proc : \A q \in DOMAIN proc :
        (p # q /\ Persisted(p) /\ Persisted(q)) =>
            \A v \in DOMAIN merchandise_variation :
                HeldOn(booking_item, ItemIdsOf(booking_item, p), v)
                + HeldOn(booking_item, ItemIdsOf(booking_item, q), v)
                    <= merchandise_variation[v].quantity_total

\* the items of booking c that still hold stock
Holding(c) == ItemIdsOf(booking_item, c) \ WithStatus(booking_item,
                                              ItemIdsOf(booking_item, c), "refunded")

\* C4: a create_booking that failed after its first write leaves no Booking
\* row and no BookingItem row behind, and every persisted booking's
\* merchandise is counted in quantity_sold.
AtomicCreation ==
    /\ (last.op = "create_booking" /\ last.outcome = "error") =>
           /\ last.code \notin DOMAIN booking
           /\ ItemIdsOf(booking_item, last.code) = {}
    /\ \A c \in DOMAIN booking : \A v \in DOMAIN merchandise_variation :
           merchandise_variation[v].quantity_sold >= HeldOn(booking_item, Holding(c), v)

\* C5: every variation keeps 0 <= quantity_sold <= quantity_total.
MerchandiseStockInvariant ==
    \A v \in DOMAIN merchandise_variation :
        /\ 0 <= merchandise_variation[v].quantity_sold
        /\ merchandise_variation[v].quantity_sold
               <= merchandise_variation[v].quantity_total

-----------------------------------------------------------------------------
(* Booking lifecycle properties *)

\* the edges of the status table, the revert edge included
TransitionTable ==
    {<<"draft", "confirmed">>, <<"draft", "cancelled">>,
     <<"confirmed", "checked_in">>, <<"confirmed", "cancelled">>,
     <<"checked_in", "completed">>, <<"checked_in", "cancelled">>,
     <<"completed", "cancelled">>, <<"checked_in", "confirmed">>}

\* every booking_status that changes in a step changes along an edge
AlongTheTable ==
    \A c \in DOMAIN booking \cap DOMAIN booking' :
        booking'[c].booking_status # booking[c].booking_status =>
            <<booking[c].booking_status, booking'[c].booking_status>> \in TransitionTable

\* a PATCH asking for a change outside the table is rejected, status kept
OffTableRejected ==
    \A c \in DOMAIN booking : \A s \in BookingStatus :
        (s # booking[c].booking_status
         /\ <<booking[c].booking_status, s>> \notin TransitionTable) =>
            LET r == update_booking(c, [booking_status |-> s])
            IN r.outcome = "rejected"
               /\ r.booking[c].booking_status = booking[c].booking_status

\* C6: every change of a booking's booking_status made by update_booking,
\* check_in_booking, revert_check_in or process_refund is an edge of the
\* status table or the revert edge checked_in -> confirmed, and a PATCH that
\* asks for any other change is rejected and leaves booking_status as it was.
StatusTransitionTable == []OffTableRejected /\ [][AlongTheTable]_vars

\* C6 witness: revert_check_in has just taken a checked_in booking back to
\* confirmed, a status from which PATCH requests outside the table exist.
StatusTransitionTaken ==
    /\ last.op = "revert_check_in" /\ last.outcome = "ok"
    /\ last.was = "checked_in"
    /\ StatusOf(booking, last.code) = "confirmed"

\* C7: once a booking is cancelled no later request changes its
\* booking_status.
CancelledIsTerminal ==
    [][\A c \in DOMAIN booking \cap DOMAIN booking' :
          booking[c].booking_status = "cancelled" =>
              booking'[c].booking_status = "cancelled"]_vars

\* C7 witness: a request on a cancelled booking was accepted and the booking
\* is still cancelled.
CancelledBookingServed ==
    /\ last.op \in {"update_booking", "reschedule_booking"} /\ last.outcome = "ok"
    /\ last.was = "cancelled"
    /\ StatusOf(booking, last.code) = "cancelled"

\* PATCH bodies that edit a field other than booking_status
NonStatusEdits(c) ==
    {[first_name |-> "b"], [tip_amount |-> 1], [total_amount |-> 1]}
    \cup {[item_quantity_updates |-> <<[id |-> i, quantity |-> q]>>] :
              i \in ItemIdsOf(booking_item, c), q \in 0..MaxQty}

\* C8: on a checked_in booking update_booking rejects every body that edits
\* a non-status field, and accepts and applies a body that only sets
\* booking_status to completed or to cancelled.
CheckedInPatch ==
    \A c \in DOMAIN booking :
        booking[c].booking_status = "checked_in" =>
            /\ \A req \in NonStatusEdits(c) : update_booking(c, req).outcome = "rejected"
            /\ \A s \in {"completed", "cancelled"} :
                   LET r == update_booking(c, [booking_status |-> s])
                   IN r.outcome = "ok" /\ r.booking[c].booking_status = s

\* C9: after a check-in by check_in_booking, calling check_in_booking again
\* on the booking leaves booking_status, every item status and every
\* quantity_fulfilled as the first check-in left them.
CheckInIdempotent ==
    (last.op = "check_in_booking" /\ last.outcome = "ok") =>
        \A ctx \in CheckInInputs :
            LET c == last.code
                r == check_in_booking(c, ctx[1], ctx[2])
            IN r.outcome = "ok" =>
                  /\ r.booking[c].booking_status = booking[c].booking_status
                  /\ \A i \in ItemIdsOf(booking_item, c) :
                         r.booking_item[i].status = booking_item[i].status
                  /\ \A v \in DOMAIN merchandise_variation :
                         r.merchandise_variation[v].quantity_fulfilled
                             = merchandise_variation[v].quantity_fulfilled

\* C10: when a booking has been created, confirmed, optionally checked in and
\* then fully refunded, every variation its items name has quantity_sold and
\* quantity_fulfilled back at their values before the create_booking call.
AdmitRefundRoundTrip ==
    trail.stage = "refunded" =>
        \A i \in ItemIdsOf(booking_item, trail.code) :
            LET v == booking_item[i].merchandise_variation_id
            IN v \in DOMAIN merchandise_variation =>
                  /\ merchandise_variation[v].quantity_sold
                         = trail.before[v].quantity_sold
                  /\ merchandise_variation[v].quantity_fulfilled
                         = trail.before[v].quantity_fulfilled

-----------------------------------------------------------------------------
(* Refund properties *)

\* a step in which process_refund raises the cumulative refund of booking c
\* (no other route writes refunded_amount_cents of a booking that stays)
RefundStep(c) ==
    /\ c \in DOMAIN booking
    /\ c \in DOMAIN booking'
    /\ booking'[c].refunded_amount_cents > booking[c].refunded_amount_cents

\* C11: when a process_refund call brings refunded_amount_cents up to
\* total_amount, the booking is cancelled with payment_status refunded, every
\* item of it is refunded, and every variation's quantity_sold is decreased by
\* the quantity of the booking's items on it, and quantity_fulfilled by the
\* quantity of the items on it that were fulfilled before the call.
FullRefundOutcome ==
    [][\A c \in DOMAIN booking :
          (RefundStep(c)
           /\ booking'[c].refunded_amount_cents >= booking[c].total_amount)
          => LET S == ItemIdsOf(booking_item, c)
                 F == WithStatus(booking_item, S, "fulfilled")
             IN /\ booking'[c].booking_status = "cancelled"
                /\ booking'[c].payment_status = "refunded"
                /\ ItemIdsOf(booking_item', c) = S
                /\ \A i \in S : booking_item'[i].status = "refunded"
                /\ \A v \in DOMAIN merchandise_variation :
                      /\ merchandise_variation'[v].quantity_sold
                            = merchandise_variation[v].quantity_sold
                              - HeldOn(booking_item, S, v)
                      /\ merchandise_variation'[v].quantity_fulfilled
                            = merchandise_variation[v].quantity_fulfilled
                              - HeldOn(booking_item, F, v)]_vars

\* C12: when a process_refund call leaves refunded_amount_cents strictly below
\* total_amount, payment_status becomes partially_refunded while
\* booking_status, the booking's items with their status and quantity, and
\* every variation counter are unchanged, and the booking still counts as paid.
PartialRefundFrame ==
    [][\A c \in DOMAIN booking :
          (RefundStep(c)
           /\ booking'[c].refunded_amount_cents < booking[c].total_amount)
          => /\ booking'[c].payment_status = "partially_refunded"
             /\ booking'[c].booking_status = booking[c].booking_status
             /\ ItemIdsOf(booking_item', c) = ItemIdsOf(booking_item, c)
             /\ \A i \in ItemIdsOf(booking_item, c) :
                   /\ booking_item'[i].status = booking_item[i].status
                   /\ booking_item'[i].quantity = booking_item[i].quantity
             /\ merchandise_variation' = merchandise_variation
             /\ IsPaidBooking(booking'[c])]_vars

\* a partial refund has just been served
PartialRefundServed ==
    /\ last.op = "process_refund"
    /\ last.outcome = "ok"
    /\ last.code \in DOMAIN booking
    /\ booking[last.code].payment_status = "partially_refunded"
    /\ booking[last.code].refunded_amount_cents > 0
    /\ booking[last.code].refunded_amount_cents < booking[last.code].total_amount

\* C13: process_refund rejects, changing nothing, every request whose amount is
\* <= 0 or greater than total_amount - refunded_amount_cents and every request
\* on a booking that is not confirmed, checked_in or completed; an accepted
\* request raises refunded_amount_cents by exactly the requested amount, or by
\* the whole remainder when no amount is given.
RefundAmountBounds ==
    \A c \in DOMAIN booking : \A a \in RefundAmounts : \A g \in BOOLEAN :
        LET r == process_refund(c, a, g)
            remaining == booking[c].total_amount - booking[c].refunded_amount_cents
        IN /\ (\/ (a # NoneInt /\ (a <= 0 \/ a > remaining))
               \/ booking[c].booking_status
                     \notin {"confirmed", "checked_in", "completed"})
              => /\ r.outcome = "rejected"
                 /\ r.booking = booking
                 /\ r.booking_item = booking_item
                 /\ r.merchandise_variation = merchandise_variation
           /\ r.outcome # "rejected"
              => r.booking[c].refunded_amount_cents
                    = booking[c].refunded_amount_cents
                      + (IF a = NoneInt THEN remaining ELSE a)

\* an amount above the remainder was refused after a part had been refunded
RefundOverRemainderRefused ==
    /\ last.op = "process_refund"
    /\ last.err = "refund_too_large"
    /\ last.code \in DOMAIN booking
    /\ booking[last.code].refunded_amount_cents > 0

\* C14: when the booking has a payment_intent_id and the gateway refuses the
\* refund, process_refund is rejected and the booking (refunded amount, both
\* statuses, refund reason), its items and the variation counters are unchanged.
GatewayFailureAborts ==
    \A c \in DOMAIN booking : \A a \in RefundAmounts :
        booking[c].payment_intent_id # None
        => LET r == process_refund(c, a, FALSE)
           IN /\ r.outcome = "rejected"
              /\ r.booking = booking
              /\ r.booking_item = booking_item
              /\ r.merchandise_variation = merchandise_variation

\* a refund that passed every check was refused by the gateway
GatewayFailureServed ==
    /\ last.op = "process_refund"
    /\ last.outcome = "rejected"
    /\ last.err = "gateway_refund_failed"
    /\ last.code \in DOMAIN booking
    /\ booking[last.code].payment_intent_id # None

-----------------------------------------------------------------------------
(* Admission properties *)

\* C15: a create_booking request rejected by a validation step (empty items,
\* trip, mission, access control, boat, price, variant, stock, per-type or
\* total capacity, duplicate confirmation code) leaves the bookings, the
\* booking items and every variation counter as they were.
RejectedAdmissionLeavesNoTrace ==
    [][(last'.op = "create_booking" /\ last'.outcome = "rejected")
       => /\ last'.err # "ok"
          /\ booking' = booking
          /\ booking_item' = booking_item
          /\ merchandise_variation' = merchandise_variation]_vars

\* a create request was refused for its confirmation code while the booking
\* holding that code is stored
RejectedAdmissionServed ==
    /\ last.op = "create_booking"
    /\ last.outcome = "rejected"
    /\ last.err = "duplicate_confirmation_code"
    /\ last.code \in DOMAIN booking

\* C17: for every ticket type in the merged effective pricing of a (trip,
\* boat) and every effective price from 0 up, the pricing step rejects a
\* ticket item with a price mismatch exactly when its price_per_unit differs
\* from the effective price, and passes it when they are equal.
TicketPriceCheck ==
    \A k \in DOMAIN trip_boat : \A ty \in EffectiveTypes(k[1], k[2]) :
        \A p \in 0..MaxPrice :
            LET req == [items |-> <<PricedItem(k[1], k[2], ty, 1, p)>>]
                e == PricingCheck(merchandise_variation, req, 1)
            IN IF p = EffectivePrice(k[1], k[2], ty)
               THEN e = "ok"
               ELSE e = "ticket_price_mismatch"

\* the rejections of the access-control step
AccessErrors ==
    {"private_trip", "access_code_required", "invalid_access_code",
     "not_an_access_code", "access_code_inactive", "access_code_wrong_mission"}

\* C18: a create_booking call by an actor who is not a superuser succeeds only
\* if no referenced trip is private in effect and, when some referenced trip is
\* early_bird in effect, the request carries a discount code that exists, is an
\* access code, is active and is unscoped or scoped to the booking's mission;
\* a superuser is never refused by the access control.
AccessGating ==
    \A req \in AdmitRequests :
        /\ create_booking(req, "anonymous", "none").outcome = "ok"
           => LET tids == {req.items[i].trip_id : i \in DOMAIN req.items}
                  eff(t) == effective_booking_mode(trip[t].booking_mode,
                                                   trip[t].sales_open_at)
                  dc == req.discount_code_id
              IN /\ \A t \in tids : eff(t) # "private"
                 /\ (\E t \in tids : eff(t) = "early_bird")
                    => /\ dc \in DOMAIN discount_code
                       /\ discount_code[dc].is_access_code
                       /\ discount_code[dc].is_active
                       /\ discount_code[dc].access_code_mission_id
                             \in {None, trip[req.items[1].trip_id].mission_id}
        /\ create_booking(req, "superuser", "none").err \notin AccessErrors

\* an anonymous caller has just booked a trip that is early_bird in effect
EarlyBirdAdmitted ==
    /\ last.op = "create_booking"
    /\ last.outcome = "ok"
    /\ last.by = "anonymous"
    /\ last.code \in DOMAIN booking
    /\ booking[last.code].discount_code_id \in DOMAIN discount_code
    /\ \E i \in ItemIdsOf(booking_item, last.code) :
          effective_booking_mode(trip[booking_item[i].trip_id].booking_mode,
                                 trip[booking_item[i].trip_id].sales_open_at)
             = "early_bird"

\* the ticket quantities of the bookings create_booking accepted that still
\* hold their seats (drafts and paid bookings) for a (trip, boat, ticket type)
AcceptedSeats(t, b, ty) ==
    LET S == {i \in DOMAIN booking_item :
                 /\ IsTicket(booking_item[i])
                 /\ booking_item[i].trip_id = t
                 /\ booking_item[i].boat_id = b
                 /\ booking_item[i].item_type = ty
                 /\ \/ booking[booking_item[i].booking_id].booking_status = "draft"
                    \/ IsPaidBooking(booking[booking_item[i].booking_id])}
    IN SumSet(S, [i \in S |-> booking_item[i].quantity])

Reserved(items, tm, v) ==
    LET S == {i \in DOMAIN items : /\ items[i].trip_merchandise_id = tm
                                   /\ items[i].merchandise_variation_id = v}
    IN SumSet(S, [i \in S |-> items[i].quantity])

\* C19: an operation that increases the quantity of merchandise reserved from
\* a variation (merchandise items of create_booking, a quantity increase of
\* update_booking) is accepted only if the increase is at most
\* quantity_total - quantity_sold, capped by the quantity_available_override
\* of the item's TripMerchandise link when it is set.
MerchandiseAvailabilityRule ==
    [][\A tm \in DOMAIN trip_merchandise : \A v \in DOMAIN merchandise_variation :
          Reserved(booking_item', tm, v) > Reserved(booking_item, tm, v)
          => Reserved(booking_item', tm, v) - Reserved(booking_item, tm, v)
                <= AvailableStock(merchandise_variation, v, tm)]_vars

-----------------------------------------------------------------------------
(* Administrative capacity floor *)

\* every capacity in force is at or above the paid seats it covers
CapacityFloor ==
    \A k \in DOMAIN trip_boat :
        /\ get_paid_ticket_count_per_boat_for_trip(booking, booking_item, k[1], k[2])
              <= effective_max(k[1], k[2])
        /\ \A ty \in EffectiveTypes(k[1], k[2]) :
              EffectiveCapacity(k[1], k[2], ty) # NoneInt
              => get_paid_ticket_count_per_boat_per_item_type_for_trip(
                     booking, booking_item, k[1], k[2], ty)
                   <= EffectiveCapacity(k[1], k[2], ty)

\* C20: no administrative mutation (of Boat.capacity, of a trip-boat's
\* max_capacity, trip or boat, of a BoatPricing or TripBoatPricing capacity)
\* is accepted if afterwards some (trip, boat) has an effective max capacity
\* below its paid ticket count, or some (trip, boat, ticket type) a restricting
\* effective capacity below its paid count; stated for the mutations of a
\* store whose capacities are all at or above their paid counts.
AdministrativeCapacityFloor ==
    [][(CapacityFloor /\ refvars' # refvars) => CapacityFloor']_vars

-----------------------------------------------------------------------------
(* Item record properties *)

\* C21: the price paid is immutable: every booking item that exists before
\* and after a step of any route has the price_per_unit it had before it.
PricePaidImmutable ==
    [][\A i \in DOMAIN booking_item \cap DOMAIN booking_item' :
           booking_item'[i].price_per_unit = booking_item[i].price_per_unit]_vars

\* the boat a reschedule to trip t lands on: the only boat of the trip, else
\* the boat the request names
ChosenBoat(t, b) ==
    IF Cardinality(BoatsOnTrip(t)) = 1 THEN CHOOSE x \in BoatsOnTrip(t) : TRUE ELSE b

\* C22: a successful reschedule_booking sets trip_id to the target trip and
\* boat_id to the chosen target boat on every ticket item of the booking and
\* changes nothing else: merchandise items, every item's quantity,
\* price_per_unit and status, the booking row (amounts, booking_status,
\* payment_status), the other bookings' items and every variation counter
\* are as they were.
RescheduleFrame ==
    \A c \in DOMAIN booking : \A t \in DOMAIN trip : \A b \in {None} \cup DOMAIN boat :
        LET r == reschedule_booking(c, t, b)
        IN r.outcome = "ok"
           => /\ r.booking = booking
              /\ r.merchandise_variation = merchandise_variation
              /\ DOMAIN r.booking_item = DOMAIN booking_item
              /\ \A i \in DOMAIN booking_item :
                    IF booking_item[i].booking_id = c /\ IsTicket(booking_item[i])
                    THEN /\ r.booking_item[i].trip_id = t
                         /\ r.booking_item[i].boat_id = ChosenBoat(t, b)
                         /\ [r.booking_item[i] EXCEPT
                                !.trip_id = booking_item[i].trip_id,
                                !.boat_id = booking_item[i].boat_id] = booking_item[i]
                    ELSE r.booking_item[i] = booking_item[i]

\* a booking of a seat and a shirt has just been rescheduled to trip T2: the
\* seat is on T2, the shirt still on T1
RescheduledWithMerchandise ==
    /\ last.op = "reschedule_booking"
    /\ last.outcome = "ok"
    /\ \E i \in ItemIdsOf(booking_item, last.code) :
          IsTicket(booking_item[i]) /\ booking_item[i].trip_id = "T2"
    /\ \E i \in ItemIdsOf(booking_item, last.code) :
          ~IsTicket(booking_item[i]) /\ booking_item[i].trip_id = "T1"

\* the ticket items of booking c
TicketIdsOf(c) == {i \in ItemIdsOf(booking_item, c) : IsTicket(booking_item[i])}

\* the seats of ticket type ty booking c holds
OwnSeats(c, ty) ==
    LET S == {i \in TicketIdsOf(c) : booking_item[i].item_type = ty}
    IN SumSet(S, [i \in S |-> booking_item[i].quantity])

\* what a reschedule of booking c to trip t (boat argument b) needs: the
\* booking is not checked in and has tickets, the target trip is active and
\* of the mission of the first ticket item's trip, the chosen boat sails the
\* target trip, and every ticket type and the seat total fit at the target
\* on top of its paid seats
RescheduleAdmissible(c, t, b) ==
    LET ids == get_booking_items_in_display_order(booking_item, c)
        tickets == SelectSeq(ids, LAMBDA i : IsTicket(booking_item[i]))
        tb == ChosenBoat(t, b)
        types == {booking_item[i].item_type : i \in TicketIdsOf(c)}
        total == SumSet(types, [ty \in types |-> OwnSeats(c, ty)])
    IN /\ booking[c].booking_status # "checked_in"
       /\ tickets # <<>>
       /\ HasTrip(t)
       /\ trip[t].active
       /\ HasTrip(booking_item[Head(tickets)].trip_id)
       /\ trip[t].mission_id = trip[booking_item[Head(tickets)].trip_id].mission_id
       /\ HasTripBoat(t, tb)
       /\ \A ty \in types :
             /\ ty \in EffectiveTypes(t, tb)
             /\ \/ EffectiveCapacity(t, tb, ty) = NoneInt
                \/ get_paid_ticket_count_per_boat_per_item_type_for_trip(
                       booking, booking_item, t, tb, ty) + OwnSeats(c, ty)
                     <= EffectiveCapacity(t, tb, ty)
       /\ get_paid_ticket_count_per_boat_for_trip(booking, booking_item, t, tb) + total
             <= effective_max(t, tb)

\* C23: reschedule_booking succeeds only if the booking is not checked_in,
\* the target trip is active and in the mission of the booking's first ticket
\* item's trip, the target boat is associated with the target trip (the only
\* boat of the trip, else the one given), and at the target both every ticket
\* type (paid count + the booking's quantity <= effective per-type capacity)
\* and the seat total (paid total + the booking's tickets <= effective max
\* capacity) fit; otherwise it is rejected and no item is moved.
RescheduleAdmission ==
    \A c \in DOMAIN booking : \A t \in DOMAIN trip \cup {"T0"} :
        \A b \in {None, "B0"} \cup DOMAIN boat :
            LET r == reschedule_booking(c, t, b)
            IN IF RescheduleAdmissible(c, t, b)
               THEN r.outcome = "ok"
               ELSE /\ r.outcome = "rejected"
                    /\ r.booking = booking
                    /\ r.booking_item = booking_item
                    /\ r.merchandise_variation = merchandise_variation

\* a booking has been rescheduled to trip T2 and holds paid seats there, and
\* the other booking cannot follow it for lack of capacity
RescheduleRefusedForCapacity ==
    \E c \in DOMAIN booking : \E d \in DOMAIN booking \ {c} :
        /\ IsPaidBooking(booking[c])
        /\ \E i \in TicketIdsOf(c) : booking_item[i].trip_id = "T2"
        /\ \E i \in TicketIdsOf(d) : booking_item[i].trip_id = "T1"
        /\ reschedule_booking(d, "T2", None).err
              \in {"type_capacity_exceeded", "total_capacity_exceeded"}

-----------------------------------------------------------------------------
(* Stock release properties *)

\* the merchandise items a step removes from the store
RemovedMerchandise ==
    {i \in DOMAIN booking_item \ DOMAIN booking_item' : ~IsTicket(booking_item[i])}

\* C24: every step that removes merchandise booking items from the store
\* (delete_booking, an item_quantity_updates entry with quantity 0,
\* delete_trip) lowers the quantity_sold of each variation by the quantities
\* of the removed items that hold it, in the same step.
DeletionReleasesStock ==
    [][RemovedMerchandise # {}
       => \A v \in DOMAIN merchandise_variation :
             merchandise_variation'[v].quantity_sold
                = merchandise_variation[v].quantity_sold
                    - HeldOn(booking_item, RemovedMerchandise, v)]_vars

-----------------------------------------------------------------------------
(* Admission effect *)

\* the variation a requested item resolves to, None for a ticket
ResolvedVariation(item) ==
    IF item.trip_merchandise_id = None
       \/ item.trip_merchandise_id \notin DOMAIN trip_merchandise
    THEN None
    ELSE get_merchandise_variation_by_merchandise_and_value(
             merchandise_variation,
             trip_merchandise[item.trip_merchandise_id].merchandise_id,
             VariantValue(item))

\* the units of variation v a request asks for, over all its items
RequestedOf(req, v) ==
    LET K == {k \in DOMAIN req.items : ResolvedVariation(req.items[k]) = v}
    IN SumSet(K, [k \in K |-> req.items[k].quantity])

\* the paid seats of every (trip, boat, ticket type) in the given tables
PaidCounts(bks, items) ==
    [k \in (DOMAIN trip_boat) \X ItemTypeStrings |->
        get_paid_ticket_count_per_boat_per_item_type_for_trip(
            bks, items, k[1][1], k[1][2], k[2])]

\* C25: after a successful create_booking the new booking is a draft with
\* payment_status null, has exactly one item per requested item with the
\* requested quantity and price_per_unit, each variation's quantity_sold has
\* grown by exactly the sum of the quantities of the request's items that
\* resolve to it, and quantity_fulfilled, the seat (paid) counts and the other
\* bookings and items are as they were.
SuccessfulAdmissionEffect ==
    \A req \in CreateInputs :
        LET r == create_booking(req, "anonymous", "none")
            c == req.confirmation_code
            new == DOMAIN r.booking_item \ DOMAIN booking_item
        IN r.outcome = "ok"
           => /\ DOMAIN r.booking = DOMAIN booking \cup {c}
              /\ c \notin DOMAIN booking
              /\ r.booking[c].booking_status = "draft"
              /\ r.booking[c].payment_status = None
              /\ \A d \in DOMAIN booking : r.booking[d] = booking[d]
              /\ \A i \in DOMAIN booking_item : r.booking_item[i] = booking_item[i]
              /\ new = ItemIdsOf(r.booking_item, c)
              /\ Cardinality(new) = Len(req.items)
              /\ \E f \in [DOMAIN req.items -> new] :
                    /\ \A j, k \in DOMAIN req.items : f[j] = f[k] => j = k
                    /\ \A k \in DOMAIN req.items :
                          /\ r.booking_item[f[k]].quantity = req.items[k].quantity
                          /\ r.booking_item[f[k]].price_per_unit
                                = req.items[k].price_per_unit
                          /\ r.booking_item[f[k]].item_type = req.items[k].item_type
              /\ \A v \in DOMAIN merchandise_variation :
                    r.merchandise_variation[v] =
                        [merchandise_variation[v] EXCEPT
                            !.quantity_sold = @ + RequestedOf(req, v)]
              /\ PaidCounts(r.booking, r.booking_item) = PaidCounts(booking, booking_item)

\* a draft just admitted with two shirt lines holds the whole quantity_sold of
\* the variation, next to a paid booking of a seat
TwoLinesAdmitted ==
    \E c \in DOMAIN booking : \E d \in DOMAIN booking \ {c} :
        /\ booking[c].booking_status = "draft"
        /\ Cardinality(ItemIdsOf(booking_item, c)) = 2
        /\ \A i \in ItemIdsOf(booking_item, c) :
              booking_item[i].merchandise_variation_id = "V1"
        /\ merchandise_variation["V1"].quantity_sold
              = HeldOn(booking_item, ItemIdsOf(booking_item, c), "V1")
        /\ IsPaidBooking(booking[d])
        /\ \E i \in ItemIdsOf(booking_item, d) : IsTicket(booking_item[i])

-----------------------------------------------------------------------------
(* Cancellation by PATCH *)

\* a step in which update_booking has moved booking c to cancelled
CancelStep(c) ==
    /\ last'.op = "update_booking"
    /\ last'.outcome = "ok"
    /\ last'.code = c
    /\ c \in DOMAIN booking /\ c \in DOMAIN booking'
    /\ booking[c].booking_status # "cancelled"
    /\ booking'[c].booking_status = "cancelled"

\* payment statuses that record a refund
RefundRecorded == {"refunded", "partially_refunded"}

\* C26: when update_booking moves a booking to cancelled and the request does
\* not set payment_status itself, the payment_status afterwards is failed if
\* it was neither refunded nor partially_refunded before the call, and is
\* what it was otherwise.
CancelKeepsRefundState ==
    [][\A c \in DOMAIN booking :
           CancelStep(c)
           => booking'[c].payment_status =
                  IF booking[c].payment_status \in RefundRecorded
                  THEN booking[c].payment_status ELSE "failed"]_vars

\* C27: after update_booking has moved a booking to cancelled, every item of
\* the booking has status refunded if the booking's payment_status before or
\* after the call is refunded or partially_refunded, and status active
\* otherwise.
CancelItemStatuses ==
    [][\A c \in DOMAIN booking :
           CancelStep(c)
           => \A i \in ItemIdsOf(booking_item', c) :
                  booking_item'[i].status =
                      IF \/ booking[c].payment_status \in RefundRecorded
                         \/ booking'[c].payment_status \in RefundRecorded
                      THEN "refunded" ELSE "active"]_vars


\* C28: whenever a booking goes from confirmed to checked_in, by
\* check_in_booking or by update_booking, afterwards every item of the booking
\* is fulfilled and quantity_fulfilled of each variation has grown by the
\* quantities of the booking's merchandise items of that variation.
CheckInSideEffects ==
    [][\A c \in DOMAIN booking :
           ( /\ c \in DOMAIN booking'
             /\ booking[c].booking_status = "confirmed"
             /\ booking'[c].booking_status = "checked_in" )
           => /\ \A i \in ItemIdsOf(booking_item', c) :
                     booking_item'[i].status = "fulfilled"
              /\ \A v \in DOMAIN merchandise_variation :
                     merchandise_variation'[v].quantity_fulfilled =
                         merchandise_variation[v].quantity_fulfilled
                         + HeldOn(booking_item, ItemIdsOf(booking_item, c), v)]_vars


\* C29: for every booking that becomes checked_in, by check_in_booking or by
\* update_booking, the revert_check_in that follows returns the booking to
\* confirmed, every item of it to active, and quantity_fulfilled of every
\* variation to its value just before the booking became checked_in.
RevertInvertsCheckIn ==
    [][\A c \in DOMAIN booking :
           ( /\ c \in DOMAIN booking'
             /\ booking[c].booking_status # "checked_in"
             /\ booking'[c].booking_status = "checked_in" )
           => LET r == Reverted(booking', booking_item',
                                merchandise_variation', c)
              IN /\ r.booking[c].booking_status = "confirmed"
                 /\ \A i \in ItemIdsOf(r.booking_item, c) :
                        r.booking_item[i].status = "active"
                 /\ \A v \in DOMAIN merchandise_variation :
                        r.merchandise_variation[v].quantity_fulfilled
                            = merchandise_variation[v].quantity_fulfilled]_vars


-----------------------------------------------------------------------------
(* Quantity updates against the per-type capacity *)

\* the ticket items of booking c in the (trip, boat, ticket type) of item i
BucketOf(c, i) ==
    {j \in ItemIdsOf(booking_item, c) :
        /\ IsTicket(booking_item[j])
        /\ booking_item[j].trip_id = booking_item[i].trip_id
        /\ booking_item[j].boat_id = booking_item[i].boat_id
        /\ booking_item[j].item_type = booking_item[i].item_type}

\* the seats booking c would hold in the bucket of item i after the updates
ProposedIn(c, iqu, i) ==
    SumSet(BucketOf(c, i),
           [j \in BucketOf(c, i) |-> QtyById(iqu, j, booking_item[j].quantity)])

\* the paid seats that bookings other than c hold in the bucket of item i
PaidByOthers(c, i) ==
    get_paid_ticket_count_per_boat_per_item_type_for_trip(
        DropKeys(booking, {c}), booking_item, booking_item[i].trip_id,
        booking_item[i].boat_id, booking_item[i].item_type)

\* some bucket of booking c with a restricting per-type capacity would hold
\* more than the capacity once the proposed quantities are counted
OverTypeCapacity(c, iqu) ==
    \E i \in ItemIdsOf(booking_item, c) :
        /\ IsTicket(booking_item[i])
        /\ LET capacities == get_effective_capacity_per_ticket_type(
                                 booking_item[i].trip_id, booking_item[i].boat_id)
               ty == booking_item[i].item_type
           IN /\ ty \in DOMAIN capacities
              /\ DictGet(capacities, ty) # NoneInt
              /\ PaidByOthers(c, i) + ProposedIn(c, iqu, i) > DictGet(capacities, ty)

\* C30: in every status that permits item_quantity_updates (draft, confirmed,
\* completed, cancelled), update_booking refuses the proposed quantities for
\* capacity exactly when, in some bucket of the booking with a restricting
\* per-type capacity, the paid seats of the other bookings plus this booking's
\* proposed quantity exceed the effective per-type capacity.
QuantityUpdateAdmission ==
    \A c \in DOMAIN booking :
        booking[c].booking_status \in {"draft", "confirmed", "completed", "cancelled"}
        => \A req \in UpdateInputs(c) :
               "item_quantity_updates" \in DOMAIN req
               => LET r == update_booking(c, req)
                  IN (r.err = "type_capacity_exceeded")
                         <=> OverTypeCapacity(c, req.item_quantity_updates)


-----------------------------------------------------------------------------
(* Money fields *)

\* the tax rate resolved for the items S of a table, NoneInt when S is empty
\* or no rate is found
RateOf(items, S) ==
    IF S = {} THEN NoneInt
    ELSE tax_rate_of_trip(items[CHOOSE i \in S : \A j \in S : i <= j].trip_id)

SubtotalMatchesItems ==
    \A c \in DOMAIN booking :
        booking[c].subtotal = Subtotal(booking_item, ItemIdsOf(booking_item, c))


\* C33: in every reachable state every booking has
\* total_amount = subtotal - discount_amount + tax_amount + tip_amount.
TotalFormula ==
    \A c \in DOMAIN booking :
        booking[c].total_amount =
            booking[c].subtotal - booking[c].discount_amount
            + booking[c].tax_amount + booking[c].tip_amount


\* C34: in every reachable state every item of a draft or confirmed booking
\* is active, every item of a checked_in booking is fulfilled, and an item is
\* refunded only if the payment_status of its booking is refunded or
\* partially_refunded.
ItemStatusFollowsBooking ==
    \A c \in DOMAIN booking : \A i \in ItemIdsOf(booking_item, c) :
        /\ booking[c].booking_status \in {"draft", "confirmed"}
           => booking_item[i].status = "active"
        /\ booking[c].booking_status = "checked_in"
           => booking_item[i].status = "fulfilled"
        /\ booking_item[i].status = "refunded"
           => booking[c].payment_status \in RefundRecorded


-----------------------------------------------------------------------------
(* Ticket-type strings *)

\* the item_type strings of tickets
TicketTypeStrings == ItemTypeStrings \ {"shirt"}

\* two strings that name the same ticket type: equal ignoring case, or equal
\* once a trailing _ticket is removed
SameTicketType(a, b) == Lower(a) = Lower(b) \/ StripTicket(a) = StripTicket(b)

\* the verdict of create_booking on a request of q seats of type ty at price p
\* on trip t and boat b
SeatsVerdict(c, t, b, ty, q, p) ==
    create_booking(
        CreateRequest(c, <<[trip_id |-> t, boat_id |-> b, trip_merchandise_id |-> None,
                            item_type |-> ty, quantity |-> q, price_per_unit |-> p,
                            status |-> "active", variant_option |-> None]>>),
        "anonymous", "none").err

\* C35: two item_type strings that are equal ignoring case, or equal after
\* removing a trailing _ticket, are counted in the same capacity bucket and
\* resolve to the same capacity and price, so create_booking gives requests
\* that differ only in such a spelling the same verdict, and a type the
\* pricing step accepts is found by the capacity step.
TicketTypeBuckets ==
    \A c \in FreeCodes : \A k \in DOMAIN trip_boat :
        \A a \in TicketTypeStrings : \A b \in TicketTypeStrings :
            \A q \in 1..MaxQty : \A p \in 0..MaxPrice :
                SameTicketType(a, b)
                => /\ SeatsVerdict(c, k[1], k[2], a, q, p)
                          = SeatsVerdict(c, k[1], k[2], b, q, p)
                   /\ SeatsVerdict(c, k[1], k[2], a, q, p) # "no_capacity_configured"


-----------------------------------------------------------------------------
(* Stock counters *)

\* the merchandise items on variation v that are not refunded
ReservingItems(v) ==
    {i \in DOMAIN booking_item :
        /\ booking_item[i].merchandise_variation_id = v
        /\ booking_item[i].status # "refunded"}

\* C36: in every reachable state quantity_sold of every variation is the sum
\* of the quantities of the existing merchandise items on that variation whose
\* status is not refunded.
StockConservation ==
    \A v \in DOMAIN merchandise_variation :
        merchandise_variation[v].quantity_sold
            = HeldOn(booking_item, ReservingItems(v), v)


\* C37: in every reachable state every variation has
\* 0 <= quantity_fulfilled <= quantity_sold.
FulfilledWithinSold ==
    \A v \in DOMAIN merchandise_variation :
        /\ 0 <= merchandise_variation[v].quantity_fulfilled
        /\ merchandise_variation[v].quantity_fulfilled
               <= merchandise_variation[v].quantity_sold


\* C38: in every reachable state every booking has
\* 0 <= refunded_amount_cents <= total_amount.
RefundedWithinTotal ==
    \A c \in DOMAIN booking :
        /\ 0 <= booking[c].refunded_amount_cents
        /\ booking[c].refunded_amount_cents <= booking[c].total_amount


-----------------------------------------------------------------------------
(* Two process_refund calls in flight on one booking.  Each call runs in its *)
(* own session: the read of the booking and the checks made on it (lines     *)
(* 2060-2111), the call to the payment gateway (lines 2118-2136), then the   *)
(* writes and their commit (lines 2142-2181).  The booking row is not locked *)
(* when it is read.  The write of the booking row is flushed before the      *)
(* items are read (line 2148), so two calls on one booking run the last part *)
(* one after the other.                                                      *)

\* the booking both calls refund
RefundedCodes == {1}

\* the callers
RefundCallers == {1, 2}

\* the amounts asked for: the whole remainder, nothing, a part
RefundRaceAmounts == {NoneInt, 0, 2, 3}

\* a call not yet made
IdleRefund ==
    [pc |-> "idle", amount |-> 0, seen |-> <<>>, sent |-> 0, released |-> {}]

\* the paid booking of a seat and a shirt, and a second confirmed booking that
\* holds a shirt of the same variation
InitRefunds ==
    /\ InitReference
    /\ LET req1 == CreateRequest(1, <<TicketItem("T1", "B1", "adult", 1),
                                      MerchandiseItem(1, "active")>>)
           req2 == CreateRequest(2, <<MerchandiseItem(1, "active")>>)
           mvs0 == [v \in {"V1"} |->
                       [merchandise_id |-> "shirt", variant_value |-> "M",
                        quantity_total |-> 2, quantity_sold |-> 0,
                        quantity_fulfilled |-> 0]]
           items1 == WithNewItems(<<>>, mvs0, req1)
           items2 == WithNewItems(items1, mvs0, req2)
       IN /\ booking =
                 [c \in {1, 2} |->
                     [NewBooking(IF c = 1 THEN req1 ELSE req2)
                         EXCEPT !.booking_status = "confirmed",
                                !.payment_status = "paid",
                                !.payment_intent_id = "pi_1"]]
          /\ booking_item = items2
          /\ merchandise_variation = SoldIncremented(mvs0, items2, DOMAIN items2)
    /\ last = NoRequest
    /\ trail = NoTrail
    /\ proc = [p \in RefundCallers |-> IdleRefund]
    /\ scn = "refunds"

\* lines 2060-2111: call p reads the booking and checks status and amount
ReadBooking(p) ==
    /\ proc[p].pc = "idle"
    /\ \E a \in RefundRaceAmounts : \E c \in RefundedCodes :
           LET bk == booking[c]
               remaining_refundable == bk.total_amount - bk.refunded_amount_cents
               amount_to_refund == IF a # NoneInt THEN a ELSE remaining_refundable
               ok == /\ bk.booking_status \in {"confirmed", "checked_in", "completed"}
                     /\ RefundAmountCheck(bk, amount_to_refund) = "ok"
           IN proc' = [proc EXCEPT ![p] =
                         [IdleRefund EXCEPT
                             !.pc = IF ok THEN "validated" ELSE "rejected",
                             !.amount = amount_to_refund,
                             !.seen = bk]]
    /\ UNCHANGED <<refvars, dbvars, last, trail, scn>>

\* lines 2118-2136: the gateway refunds the amount of call p, or fails
CallGateway(p) ==
    /\ proc[p].pc = "validated"
    /\ \E gateway_ok \in BOOLEAN :
           proc' = [proc EXCEPT
                       ![p].pc = IF GatewayCheck(proc[p].seen, gateway_ok) = "ok"
                                 THEN "charged" ELSE "rejected",
                       ![p].sent = IF /\ proc[p].seen.payment_intent_id # None
                                      /\ gateway_ok
                                   THEN proc[p].amount ELSE 0]
    /\ UNCHANGED <<refvars, dbvars, last, trail, scn>>

\* lines 2142-2181: the cumulative refund is built on the value read at the
\* start; a full refund marks the items it now finds and releases their stock
CommitRefund(p) ==
    /\ proc[p].pc = "charged"
    /\ \E c \in RefundedCodes :
       LET S == ItemIdsOf(booking_item, c)
           refunded == proc[p].seen.refunded_amount_cents + proc[p].amount
           full == IsFullRefund(proc[p].seen, refunded)
           mvs1 == SoldReleased(merchandise_variation, booking_item, S)
           mvs2 == FulfilledReleased(mvs1, booking_item,
                                     WithStatus(booking_item, S, "fulfilled"))
       IN /\ booking' =
                 IF full
                 THEN [booking EXCEPT ![c].refunded_amount_cents = refunded,
                                      ![c].refund_reason = "given",
                                      ![c].booking_status = "cancelled",
                                      ![c].payment_status = "refunded"]
                 ELSE [booking EXCEPT ![c].refunded_amount_cents = refunded,
                                      ![c].refund_reason = "given",
                                      ![c].payment_status = "partially_refunded"]
          /\ booking_item' = IF full THEN SetStatus(booking_item, S, "refunded")
                             ELSE booking_item
          /\ merchandise_variation' = IF full THEN mvs2 ELSE merchandise_variation
          /\ proc' = [proc EXCEPT
                         ![p].pc = "done",
                         ![p].released =
                             IF full
                             THEN {i \in S :
                                     booking_item[i].merchandise_variation_id # None}
                             ELSE {}]
    /\ UNCHANGED <<refvars, last, trail, scn>>

NextRefunds ==
    \/ \E p \in DOMAIN proc : ReadBooking(p)
    \/ \E p \in DOMAIN proc : CallGateway(p)
    \/ \E p \in DOMAIN proc : CommitRefund(p)
    \/ CheckInBooking

SpecRefunds == InitRefunds /\ [][NextRefunds]_vars

RECURSIVE SentBy(_)
\* the amounts the gateway has refunded for the calls of S
SentBy(S) ==
    IF S = {} THEN 0
    ELSE LET p == CHOOSE q \in S : TRUE
         IN proc[p].sent + SentBy(S \ {p})

\* C39: with two process_refund calls in flight on one booking, in every
\* interleaving the amounts sent to the gateway sum to at most total_amount
\* and no item has its quantity taken off the variation by more than one call.
ConcurrentRefundsBounded ==
    /\ \A c \in RefundedCodes : SentBy(DOMAIN proc) <= booking[c].total_amount
    /\ \A i \in DOMAIN booking_item :
           Cardinality({p \in DOMAIN proc : i \in proc[p].released}) <= 1


-----------------------------------------------------------------------------
(* Rejected PATCH requests *)

\* bodies of update_booking that can be turned down at each of its checks:
\* one or two quantity updates (item 0 exists in no booking), alone or with a
\* status, a negative tip or a discount code
PatchProbes(c) ==
    LET ids == ItemIdsOf(booking_item, c) \cup {0}
        one == {<<[id |-> i, quantity |-> q]>> : i \in ids, q \in 0..(MaxQty + 2)}
        two == {<<[id |-> i, quantity |-> q], [id |-> j, quantity |-> r]>> :
                    i \in ids, j \in ids \ {0},
                    q \in {0, MaxQty}, r \in {1, MaxQty + 1}}
        fields == {[booking_status |-> s] : s \in BookingStatus}
                  \cup {[tip_amount |-> 0 - 1], [discount_code_id |-> "D1"]}
    IN fields
       \cup {[item_quantity_updates |-> u] : u \in one \cup two}
       \cup {Put(f, "item_quantity_updates", u) : f \in fields, u \in one}

\* the stored rows a response leaves are the rows of before the call
LeavesStoreAlone(r) ==
    /\ r.booking = booking
    /\ r.booking_item = booking_item
    /\ r.merchandise_variation = merchandise_variation

====
